---------------------------- MODULE Spec2Model ----------------------------
(***************************************************************************)
(* Model of the hierarchical state machine interpreter of fsmator-ui       *)
(* (StateMachine in state-machine.ts, StateNode in state-node.ts).         *)
(*                                                                         *)
(* Node ids are the dotted paths of the source, written as the sequence of *)
(* their keys: 'submitting.validating' is <<"submitting", "validating">>,  *)
(* so `id.includes('.')` is Len(id) > 1.  The synthetic root is            *)
(* <<"__root__">>.  A JavaScript Set or Map keeps insertion order, so the  *)
(* configuration is a sequence without duplicates.                         *)
(***************************************************************************)
EXTENDS Integers, Sequences, FiniteSets, TLC

VARIABLES
    machine,             \* name of the configuration given to the constructor
    nodesById,           \* StateMachine.nodesById and root: the compiled tree
    registry,            \* StateMachine.guards, reducers, timeTravelEnabled
    context,             \* StateMachine.context
    configuration,       \* StateMachine.configuration (insertion order)
    stateEntryCounters,  \* StateMachine.stateEntryCounters
    started,             \* StateMachine.started
    loaded,              \* StateMachine.loaded
    halted,              \* StateMachine.halted
    history,             \* StateMachine.history
    historyIndex,        \* StateMachine.historyIndex
    nsends,              \* number of send calls made so far (bounded by MaxSends)
    last                 \* record of the last public call: its kind, outcome and trace

vars == <<machine, nodesById, registry, context, configuration, stateEntryCounters, started, loaded,
          halted, history, historyIndex, nsends, last>>

-----------------------------------------------------------------------------
(* Bounds of the exploration.                                              *)

MaxSends == 3

MaxSteps == 2

(* How far past either end of the history the cursor is followed.          *)
MaxOvershoot == 1

(* The sends made to the traffic light.                                    *)
MaxTimers == 4

-----------------------------------------------------------------------------
(* Generic helpers on sequences.                                           *)

Range(s) == {s[i] : i \in DOMAIN s}

RECURSIVE SeqWithout(_, _)
SeqWithout(s, x) ==
    IF s = <<>> THEN <<>>
    ELSE IF Head(s) = x THEN SeqWithout(Tail(s), x)
    ELSE <<Head(s)>> \o SeqWithout(Tail(s), x)

SetAdd(s, x) == IF x \in Range(s) THEN s ELSE Append(s, x)

RECURSIVE SetOfSeq(_)
SetOfSeq(s) ==
    IF s = <<>> THEN <<>> ELSE SetAdd(SetOfSeq(SubSeq(s, 1, Len(s) - 1)), s[Len(s)])

Merge(ctx, updates) ==
    [k \in DOMAIN ctx \cup DOMAIN updates |->
        IF k \in DOMAIN updates THEN updates[k] ELSE ctx[k]]

Null == <<>>

RootId == <<"__root__">>

-----------------------------------------------------------------------------
(* Configuration values (types.ts).                                        *)

NoGuard == [type |-> "none"]

G(name) == [type |-> "string", id |-> name]

not(guard) == [type |-> "not", item |-> guard]

and(guards) == [type |-> "and", items |-> guards]

or(guards) == [type |-> "or", items |-> guards]

Str(target) == [shape |-> "string", target |-> target]

Obj(target, guard, assign) ==
    [shape |-> "object", target |-> target, guard |-> guard, assign |-> assign]

List(items) == [shape |-> "list", items |-> items]

State(key, parent) ==
    [key |-> key, parent |-> parent, type |-> "", initial |-> "", on |-> <<>>,
     always |-> List(<<>>), onEntry |-> <<>>, onExit |-> <<>>, activities |-> <<>>]

Ev(type) == [type |-> type, payload |-> <<>>]

-----------------------------------------------------------------------------
(* The configurations given to the constructor.  `states` lists the state  *)
(* declarations in declaration order; `parent` is the position of the      *)
(* enclosing declaration (0 at top level).  Strings that guards look into  *)
(* are sequences of characters.                                            *)

formWorkflow ==
    [initialContext |-> [formData |-> [name |-> <<>>, email |-> <<>>],
                         errors |-> <<>>, submitAttempts |-> 0],
     initial |-> <<"editing">>,
     timeTravel |-> TRUE,
     guards |-> {"isValid"},
     reducers |-> {"incrementAttempts", "setErrors", "clearErrors", "updateForm"},
     on |-> <<>>,
     states |-> <<
        [State("editing", 0) EXCEPT
            !.on = [UPDATE |-> Obj(<<>>, NoGuard, "updateForm"),
                    SUBMIT |-> Str(<<"submitting">>)]],
        [State("submitting", 0) EXCEPT
            !.initial = "validating", !.onEntry = <<"incrementAttempts">>],
        [State("validating", 2) EXCEPT
            !.always = List(<<Obj(<<"sending">>, G("isValid"), ""),
                              Obj(<<"failed">>, NoGuard, "")>>)],
        [State("sending", 2) EXCEPT
            !.on = [SUCCESS |-> Str(<<"success">>),
                    ERROR |-> Obj(<<"failed">>, NoGuard, "setErrors")]],
        [State("failed", 2) EXCEPT
            !.on = [RETRY |-> Obj(<<"editing">>, NoGuard, "clearErrors")]],
        [State("success", 2) EXCEPT !.type = "final"] >>]

parallelMedia ==
    [initialContext |-> [volume |-> 50, isPlaying |-> FALSE, currentTime |-> 0,
                         isPoweredOn |-> FALSE, bufferLevel |-> 100,
                         networkQuality |-> "good", subtitlesEnabled |-> FALSE,
                         quality |-> "HD"],
     initial |-> <<"off">>,
     timeTravel |-> TRUE,
     guards |-> {},
     reducers |-> {"powerOn", "powerOff", "play", "pause", "volumeUp", "volumeDown",
                   "mute", "unmute", "startBuffering", "finishBuffering",
                   "networkDegraded", "networkRestored", "enableSubtitles",
                   "disableSubtitles", "setSD", "setHD", "set4K"},
     on |-> <<>>,
     states |-> <<
        [State("off", 0) EXCEPT
            !.on = [POWER_ON |-> Obj(<<"on">>, NoGuard, "powerOn")]],
        [State("on", 0) EXCEPT
            !.type = "parallel", !.onExit = <<"powerOff">>,
            !.on = [POWER_OFF |-> Str(<<"off">>)]],
        [State("playback", 2) EXCEPT !.initial = "paused"],
        [State("playing", 3) EXCEPT
            !.on = [PAUSE |-> Obj(<<"paused">>, NoGuard, "pause")]],
        [State("paused", 3) EXCEPT
            !.on = [PLAY |-> Obj(<<"playing">>, NoGuard, "play")]],
        [State("volume", 2) EXCEPT !.initial = "normal"],
        [State("normal", 6) EXCEPT
            !.on = [VOLUME_UP |-> Obj(<<>>, NoGuard, "volumeUp"),
                    VOLUME_DOWN |-> Obj(<<>>, NoGuard, "volumeDown"),
                    MUTE |-> Obj(<<"muted">>, NoGuard, "mute")]],
        [State("muted", 6) EXCEPT
            !.on = [UNMUTE |-> Obj(<<"normal">>, NoGuard, "unmute")]],
        [State("buffer", 2) EXCEPT !.initial = "ready"],
        [State("ready", 9) EXCEPT
            !.on = [BUFFER_LOW |-> Obj(<<"buffering">>, NoGuard, "startBuffering")]],
        [State("buffering", 9) EXCEPT
            !.on = [BUFFER_COMPLETE |-> Obj(<<"ready">>, NoGuard, "finishBuffering")]],
        [State("network", 2) EXCEPT !.initial = "connected"],
        [State("connected", 12) EXCEPT
            !.on = [CONNECTION_LOST |-> Obj(<<"disconnected">>, NoGuard, "networkDegraded")]],
        [State("disconnected", 12) EXCEPT
            !.on = [CONNECTION_RESTORED |-> Obj(<<"connected">>, NoGuard, "networkRestored")]],
        [State("subtitles", 2) EXCEPT !.initial = "hidden"],
        [State("hidden", 15) EXCEPT
            !.on = [SHOW_SUBTITLES |-> Obj(<<"visible">>, NoGuard, "enableSubtitles")]],
        [State("visible", 15) EXCEPT
            !.on = [HIDE_SUBTITLES |-> Obj(<<"hidden">>, NoGuard, "disableSubtitles")]],
        [State("quality", 2) EXCEPT !.initial = "hd"],
        [State("sd", 18) EXCEPT
            !.on = [SET_HD |-> Obj(<<"hd">>, NoGuard, "setHD"),
                    SET_4K |-> Obj(<<"uhd">>, NoGuard, "set4K")]],
        [State("hd", 18) EXCEPT
            !.on = [SET_SD |-> Obj(<<"sd">>, NoGuard, "setSD"),
                    SET_4K |-> Obj(<<"uhd">>, NoGuard, "set4K")]],
        [State("uhd", 18) EXCEPT
            !.on = [SET_SD |-> Obj(<<"sd">>, NoGuard, "setSD"),
                    SET_HD |-> Obj(<<"hd">>, NoGuard, "setHD")]] >>]

(* A compound state with transitions declared on itself that target       *)
(* itself and its own child by absolute id, and a top-level `on`.          *)
nestedConfig ==
    [initialContext |-> [lastEntry |-> <<>>, lastExit |-> <<>>],
     initial |-> <<"A">>,
     timeTravel |-> TRUE,
     guards |-> {},
     reducers |-> {"noteEntry", "noteExit"},
     on |-> [HOME |-> Str(<<"B">>)],
     states |-> <<
        [State("A", 0) EXCEPT
            !.initial = "a1", !.onEntry = <<"noteEntry">>, !.onExit = <<"noteExit">>,
            !.on = [TO_CHILD |-> Str(<<"A", "a2">>), RESET |-> Str(<<"A">>)]],
        [State("a1", 1) EXCEPT
            !.onExit = <<"noteExit">>, !.on = [NEXT |-> Str(<<"a2">>)]],
        [State("a2", 1) EXCEPT
            !.onExit = <<"noteExit">>, !.on = [UP |-> Str(<<"A">>)]],
        [State("B", 0) EXCEPT
            !.onEntry = <<"noteEntry">>, !.onExit = <<"noteExit">>,
            !.on = [BACK |-> Str(<<"A">>),
                    DEEP |-> Obj(<<"A", "a2">>, NoGuard, "noteEntry")]] >>]

(* The same states, started in a nested state named by its absolute id.    *)
nestedInitialConfig == [nestedConfig EXCEPT !.initial = <<"A", "a2">>]

(* A parallel state whose regions and leaves have exit actions, left by a  *)
(* transition declared on the parallel state, by a transition of one       *)
(* region, and entered by a transition that targets one of its leaves.     *)
tvConfig ==
    [initialContext |-> [lastEntry |-> <<>>, lastExit |-> <<>>],
     initial |-> <<"off">>,
     timeTravel |-> FALSE,
     guards |-> {},
     reducers |-> {"noteEntry", "noteExit"},
     on |-> <<>>,
     states |-> <<
        [State("off", 0) EXCEPT
            !.on = [POWER_ON |-> Str(<<"on">>),
                    JUMP |-> Str(<<"on", "video", "playing">>)]],
        [State("on", 0) EXCEPT
            !.type = "parallel", !.onEntry = <<"noteEntry">>, !.onExit = <<"noteExit">>,
            !.on = [POWER_OFF |-> Str(<<"off">>)]],
        [State("video", 2) EXCEPT !.initial = "stopped", !.onExit = <<"noteExit">>],
        [State("stopped", 3) EXCEPT
            !.onExit = <<"noteExit">>,
            !.on = [X |-> Str(<<"playing">>), EJECT |-> Str(<<"off">>)]],
        [State("playing", 3) EXCEPT
            !.activities = <<"render">>,
            !.onExit = <<"noteExit">>, !.on = [X |-> Str(<<"stopped">>)]],
        [State("audio", 2) EXCEPT !.initial = "quiet", !.onExit = <<"noteExit">>],
        [State("quiet", 6) EXCEPT
            !.onExit = <<"noteExit">>,
            !.on = [X |-> Str(<<"loud">>), EJECT |-> Str(<<"loud">>)]],
        [State("loud", 6) EXCEPT
            !.onExit = <<"noteExit">>, !.on = [X |-> Str(<<"quiet">>)]] >>]

(* A state whose target-less always-transition makes the guard of its      *)
(* targeted always-transition true, and a final state that declares a      *)
(* handler for an event.                                                   *)
autoConfig ==
    [initialContext |-> [ready |-> FALSE],
     initial |-> <<"idle">>,
     timeTravel |-> TRUE,
     guards |-> {"isReady"},
     reducers |-> {"markReady", "clearReady"},
     on |-> <<>>,
     states |-> <<
        [State("idle", 0) EXCEPT !.on = [GO |-> Str(<<"checking">>),
                                         PING |-> Obj(<<>>, NoGuard, "")]],
        [State("checking", 0) EXCEPT
            !.activities = <<"check", "notify">>,
            !.always = List(<<Obj(<<"done">>, G("isReady"), ""),
                              Obj(<<>>, NoGuard, "markReady")>>),
            !.on = [CANCEL |-> Obj(<<"idle">>, NoGuard, "clearReady")]],
        [State("done", 0) EXCEPT
            !.type = "final",
            !.on = [CANCEL |-> Obj(<<"idle">>, NoGuard, "clearReady")]] >>]

(* A parallel state that declares handlers for E and F, one region whose   *)
(* leaf handles F and whose other leaf restarts the parallel state, and    *)
(* another region that handles E on the region node.                       *)
regionsConfig ==
    [initialContext |-> [marked |-> FALSE],
     initial |-> <<"P">>,
     timeTravel |-> TRUE,
     guards |-> {},
     reducers |-> {"mark"},
     on |-> <<>>,
     states |-> <<
        [State("P", 0) EXCEPT
            !.type = "parallel",
            !.on = [E |-> Str(<<"Q">>), F |-> Str(<<"Q">>)]],
        [State("r1", 1) EXCEPT !.initial = "a"],
        [State("a", 2) EXCEPT !.on = [SWAP |-> Str(<<"b">>), F |-> Str(<<"b">>)]],
        [State("b", 2) EXCEPT !.on = [SWAP |-> Str(<<"a">>), RESTART |-> Str(<<"P">>)]],
        [State("r2", 1) EXCEPT
            !.initial = "c", !.on = [E |-> Obj(<<>>, NoGuard, "mark")]],
        [State("c", 5) EXCEPT !.on = <<>>],
        State("Q", 0) >>]

(* A nested state whose key is also the key of a top-level state, and      *)
(* transitions that name states by bare key.                               *)
wizardConfig ==
    [initialContext |-> [visits |-> 0],
     initial |-> <<"wizard">>,
     timeTravel |-> TRUE,
     guards |-> {},
     reducers |-> {},
     on |-> <<>>,
     states |-> <<
        [State("idle", 0) EXCEPT !.on = [OPEN |-> Str(<<"wizard">>)]],
        [State("home", 0) EXCEPT !.on = [OPEN |-> Str(<<"wizard">>)]],
        [State("wizard", 0) EXCEPT !.initial = "step"],
        [State("step", 3) EXCEPT
            !.activities = <<"poll">>,
            !.on = [DONE |-> Str(<<"idle">>), QUIT |-> Str(<<"home">>)]],
        [State("idle", 3) EXCEPT !.on = [AGAIN |-> Str(<<"step">>)]] >>]

(* A state whose entry action names a reducer that is not registered, a    *)
(* transition guarded by a guard that is not registered and a transition   *)
(* whose target names no state.                                            *)
faultyConfig ==
    [initialContext |-> [visits |-> 0],
     initial |-> <<"idle">>,
     timeTravel |-> TRUE,
     guards |-> {},
     reducers |-> {"visit"},
     on |-> <<>>,
     states |-> <<
        [State("idle", 0) EXCEPT !.on = [STEP |-> Obj(<<"ready">>, NoGuard, "visit"),
                                           JUMP |-> Str(<<"busy">>)]],
        [State("ready", 0) EXCEPT !.on = [GO |-> Str(<<"busy">>),
                                            CHECK |-> Obj(<<"idle">>, G("absent"), ""),
                                            FAR |-> Str(<<"nowhere">>)]],
        [State("busy", 0) EXCEPT !.onEntry = <<"missing">>] >>]

(* examples.trafficLight.  `timestamp` holds a reading of the clock that    *)
(* nothing reads; it is kept at 0.                                         *)
trafficLight ==
    [initialContext |-> [cycleCount |-> 0, timestamp |-> 0],
     initial |-> <<"green">>,
     timeTravel |-> TRUE,
     guards |-> {},
     reducers |-> {"incrementCycle"},
     on |-> <<>>,
     states |-> <<
        [State("green", 0) EXCEPT
            !.on = [TIMER |-> Obj(<<"yellow">>, NoGuard, "incrementCycle")]],
        [State("yellow", 0) EXCEPT !.on = [TIMER |-> Str(<<"red">>)]],
        [State("red", 0) EXCEPT !.on = [TIMER |-> Str(<<"green">>)]] >>]

(* A state that re-enters itself through a guarded always-transition until *)
(* a count in the context reaches `limit`, one that does so for ever, and  *)
(* one that falls back on a target-less always-transition when the count   *)
(* is reached.                                                             *)
counterConfig ==
    [initialContext |-> [n |-> 0, limit |-> 99],
     initial |-> <<"idle">>,
     timeTravel |-> FALSE,
     guards |-> {"notYet"},
     reducers |-> {"count", "skipOne", "settle"},
     on |-> <<>>,
     states |-> <<
        [State("idle", 0) EXCEPT
            !.on = [RUN |-> Str(<<"loop">>),
                    LATE |-> Obj(<<"loop">>, NoGuard, "skipOne"),
                    FOREVER |-> Str(<<"spin">>),
                    TICK |-> Str(<<"tick">>)]],
        [State("loop", 0) EXCEPT
            !.always = List(<<Obj(<<"loop">>, G("notYet"), "count")>>)],
        [State("spin", 0) EXCEPT !.always = Str(<<"spin">>)],
        [State("tick", 0) EXCEPT
            !.always = List(<<Obj(<<"tick">>, G("notYet"), "count"),
                              Obj(<<>>, NoGuard, "settle")>>)] >>]

(* A parallel state that declares one always-transition above two regions. *)
fanoutConfig ==
    [initialContext |-> [moves |-> 0],
     initial |-> <<"idle">>,
     timeTravel |-> FALSE,
     guards |-> {},
     reducers |-> {"move"},
     on |-> <<>>,
     states |-> <<
        [State("idle", 0) EXCEPT !.on = [GO |-> Str(<<"P">>)]],
        [State("P", 0) EXCEPT
            !.type = "parallel",
            !.always = List(<<Obj(<<"done">>, NoGuard, "move")>>)],
        [State("r1", 2) EXCEPT !.initial = "a"],
        State("a", 3),
        [State("r2", 2) EXCEPT !.initial = "c"],
        State("c", 5),
        [State("done", 0) EXCEPT !.on = [BACK |-> Str(<<"idle">>)]] >>]

MachineNames ==
    {"formWorkflow", "parallelMedia", "nested", "nestedInitial", "tv", "auto",
     "regions", "wizard", "faulty", "counter", "trafficLight", "fanout"}

(* The number of sends made to a machine.                                  *)
MaxSendsTo(name) == IF name = "trafficLight" THEN MaxTimers ELSE MaxSends

Configs ==
    [name \in MachineNames |->
        CASE name = "formWorkflow" -> formWorkflow
          [] name = "parallelMedia" -> parallelMedia
          [] name = "nested" -> nestedConfig
          [] name = "nestedInitial" -> nestedInitialConfig
          [] name = "tv" -> tvConfig
          [] name = "auto" -> autoConfig
          [] name = "regions" -> regionsConfig
          [] name = "wizard" -> wizardConfig
          [] name = "faulty" -> faultyConfig
          [] name = "counter" -> counterConfig
          [] name = "trafficLight" -> trafficLight
          [] name = "fanout" -> fanoutConfig]

(* Guard and reducer functions registered by the configurations.           *)

includes(s, c) == \E i \in DOMAIN s : s[i] = c

Min(a, b) == IF a < b THEN a ELSE b

Max(a, b) == IF a > b THEN a ELSE b

GuardFn(name, ctx, event, state) ==
    CASE name = "isValid" ->
            Len(ctx.formData.name) > 0 /\ includes(ctx.formData.email, "@")
      [] name = "isReady" -> ctx.ready
      [] name = "notYet" -> ctx.n < ctx.limit

ReducerFn(name, ctx, event, state) ==
    CASE name = "incrementAttempts" -> [submitAttempts |-> ctx.submitAttempts + 1]
      [] name = "setErrors" ->
            [errors |-> IF "errors" \in DOMAIN event.payload
                           /\ event.payload.errors # <<>>
                        THEN event.payload.errors ELSE <<"Validation failed">>]
      [] name = "clearErrors" -> [errors |-> <<>>]
      [] name = "updateForm" -> [formData |-> Merge(ctx.formData, event.payload)]
      [] name = "powerOn" ->
            [isPoweredOn |-> TRUE, bufferLevel |-> 100, networkQuality |-> "good"]
      [] name = "powerOff" ->
            [isPoweredOn |-> FALSE, isPlaying |-> FALSE, bufferLevel |-> 0]
      [] name = "play" -> [isPlaying |-> TRUE]
      [] name = "pause" -> [isPlaying |-> FALSE]
      [] name = "volumeUp" -> [volume |-> Min(100, ctx.volume + 10)]
      [] name = "volumeDown" -> [volume |-> Max(0, ctx.volume - 10)]
      [] name = "mute" -> [volume |-> 0]
      [] name = "unmute" -> [volume |-> 50]
      [] name = "startBuffering" -> [bufferLevel |-> Max(0, ctx.bufferLevel - 20)]
      [] name = "finishBuffering" -> [bufferLevel |-> 100]
      [] name = "networkDegraded" -> [networkQuality |-> "poor"]
      [] name = "networkRestored" -> [networkQuality |-> "good"]
      [] name = "enableSubtitles" -> [subtitlesEnabled |-> TRUE]
      [] name = "disableSubtitles" -> [subtitlesEnabled |-> FALSE]
      [] name = "setSD" -> [quality |-> "SD"]
      [] name = "setHD" -> [quality |-> "HD"]
      [] name = "set4K" -> [quality |-> "4K"]
      [] name = "noteEntry" -> [lastEntry |-> state]
      [] name = "noteExit" -> [lastExit |-> state]
      [] name = "markReady" -> [ready |-> TRUE]
      [] name = "clearReady" -> [ready |-> FALSE]
      [] name = "incrementCycle" -> [cycleCount |-> ctx.cycleCount + 1, timestamp |-> 0]
      [] name = "count" -> [n |-> ctx.n + 1]
      [] name = "move" -> [moves |-> ctx.moves + 1]
      [] name = "settle" -> [limit |-> ctx.n]
      [] name = "skipOne" -> [n |-> 1]
      [] name = "mark" -> [marked |-> TRUE]
      [] name = "visit" -> [visits |-> ctx.visits + 1]

(* The events sent to each machine.                                        *)
Events(name) ==
    CASE name = "formWorkflow" ->
            {[type |-> "UPDATE",
              payload |-> [name |-> <<"A">>, email |-> <<"a", "@", "b">>]],
             Ev("SUBMIT"), Ev("SUCCESS"), Ev("RETRY")}
      [] name = "parallelMedia" ->
            {Ev("POWER_ON"), Ev("POWER_OFF"), Ev("PLAY"), Ev("MUTE"), Ev("VOLUME_UP")}
      [] name \in {"nested", "nestedInitial"} ->
            {Ev("HOME"), Ev("TO_CHILD"), Ev("RESET"), Ev("NEXT"), Ev("UP"), Ev("BACK"),
             Ev("DEEP")}
      [] name = "tv" ->
            {Ev("POWER_ON"), Ev("JUMP"), Ev("POWER_OFF"), Ev("X"), Ev("EJECT")}
      [] name = "auto" -> {Ev("GO"), Ev("CANCEL"), Ev("NOP"), Ev("PING")}
      [] name = "regions" -> {Ev("E"), Ev("F"), Ev("SWAP"), Ev("RESTART")}
      [] name = "wizard" -> {Ev("DONE"), Ev("QUIT"), Ev("AGAIN"), Ev("OPEN")}
      [] name = "faulty" -> {Ev("STEP"), Ev("GO"), Ev("JUMP"), Ev("CHECK"), Ev("FAR")}
      [] name = "counter" -> {Ev("RUN"), Ev("LATE"), Ev("FOREVER"), Ev("TICK")}
      [] name = "trafficLight" -> {Ev("TIMER")}
      [] name = "fanout" -> {Ev("GO"), Ev("BACK")}

-----------------------------------------------------------------------------
(* The constructor: compileTree, compileNode, compileTransition(s),        *)
(* resolveAllTargets, resolveTargetId.  The compiled tree is a record of   *)
(* functions over node ids; `ids` is nodesById in insertion order.         *)

RECURSIVE DeclId(_, _)
DeclId(states, i) ==
    IF states[i].parent = 0 THEN <<states[i].key>>
    ELSE DeclId(states, states[i].parent) \o <<states[i].key>>

DeclChildren(states, i) ==
    LET RECURSIVE Collect(_)
        Collect(j) ==
            IF j > Len(states) THEN <<>>
            ELSE (IF states[j].parent = i THEN <<DeclId(states, j)>> ELSE <<>>)
                 \o Collect(j + 1)
    IN  Collect(1)

DeclKind(states, i) ==
    IF \E j \in DOMAIN states : states[j].parent = i
    THEN IF states[i].type = "parallel" THEN "parallel"
         ELSE IF states[i].initial # "" THEN "compound" ELSE "parallel"
    ELSE "atomic"

compileTransition(transitionConfig) ==
    IF transitionConfig.shape = "string"
    THEN [target |-> transitionConfig.target, guard |-> NoGuard, assign |-> ""]
    ELSE [target |-> transitionConfig.target, guard |-> transitionConfig.guard,
          assign |-> transitionConfig.assign]

compileTransitionList(transitionConfig) ==
    IF transitionConfig.shape = "list"
    THEN [k \in DOMAIN transitionConfig.items |->
             compileTransition(transitionConfig.items[k])]
    ELSE <<compileTransition(transitionConfig)>>

compileTransitions(onConfig) ==
    [eventType \in DOMAIN onConfig |-> compileTransitionList(onConfig[eventType])]

compileNode(states, i) ==
    LET id == DeclId(states, i)
        kind == DeclKind(states, i)
        kids == DeclChildren(states, i)
        matching == {c \in Range(kids) : c[Len(c)] = states[i].initial}
    IN  [id |-> id,
         key |-> states[i].key,
         kind |-> kind,
         parent |-> IF states[i].parent = 0 THEN RootId
                    ELSE DeclId(states, states[i].parent),
         final |-> states[i].type = "final",
         children |-> kids,
         regions |-> IF kind = "parallel" THEN kids ELSE <<>>,
         initial |-> IF kind = "compound" /\ matching # {}
                     THEN CHOOSE c \in matching : TRUE ELSE Null,
         on |-> compileTransitions(states[i].on),
         always |-> compileTransitionList(states[i].always),
         onEntry |-> states[i].onEntry,
         onExit |-> states[i].onExit,
         activities |-> states[i].activities,
         error |-> IF kind = "compound" /\ matching = {}
                   THEN "Initial state not found in node" ELSE ""]

compileTree(config) ==
    LET states == config.states
        ids == <<RootId>> \o [i \in DOMAIN states |-> DeclId(states, i)]
        idSet == Range(ids)
        root == [id |-> RootId, key |-> "__root__", kind |-> "compound",
                 parent |-> Null, final |-> FALSE,
                 children |-> DeclChildren(states, 0), regions |-> <<>>,
                 initial |-> IF config.initial \in idSet THEN config.initial ELSE Null,
                 on |-> compileTransitions(config.on), always |-> <<>>,
                 onEntry |-> <<>>, onExit |-> <<>>, activities |-> <<>>,
                 error |-> IF config.initial \in idSet THEN ""
                           ELSE "Initial state not found"]
        node == [n \in idSet |->
                    IF n = RootId THEN root
                    ELSE compileNode(states, CHOOSE i \in DOMAIN states :
                                                  DeclId(states, i) = n)]
        nodeErrors == {i \in DOMAIN states : compileNode(states, i).error # ""}
    IN  [ids |-> ids,
         node |-> node,
         error |-> IF nodeErrors # {}
                   THEN compileNode(states, CHOOSE i \in nodeErrors :
                                        \A j \in nodeErrors : i <= j).error
                   ELSE root.error]

resolveTargetId(target, contextNode, tree) ==
    IF Len(target) > 1 THEN target
    ELSE IF target \in Range(tree.ids) THEN target
    ELSE IF contextNode.parent # Null
            /\ \E k \in DOMAIN tree.node[contextNode.parent].children :
                  tree.node[tree.node[contextNode.parent].children[k]].key = target[1]
    THEN LET sibs == tree.node[contextNode.parent].children
             k == CHOOSE k \in DOMAIN sibs :
                     /\ tree.node[sibs[k]].key = target[1]
                     /\ \A j \in DOMAIN sibs :
                           tree.node[sibs[j]].key = target[1] => k <= j
         IN  sibs[k]
    ELSE target

resolveTransition(transition, node, tree) ==
    IF transition.target = Null THEN transition
    ELSE [transition EXCEPT
            !.target = IF Len(@) > 1 \/ @ \in Range(tree.ids) THEN @
                       ELSE resolveTargetId(@, node, tree)]

resolveAllTargets(tree) ==
    [tree EXCEPT !.node =
        [n \in DOMAIN tree.node |->
            [tree.node[n] EXCEPT
                !.on = [e \in DOMAIN @ |->
                           [k \in DOMAIN @[e] |->
                               resolveTransition(@[e][k], tree.node[n], tree)]],
                !.always = [k \in DOMAIN @ |->
                               resolveTransition(@[k], tree.node[n], tree)]]]]

Constructor(config) == resolveAllTargets(compileTree(config))

Trees == [name \in MachineNames |-> Constructor(Configs[name])]

-----------------------------------------------------------------------------
(* StateNode queries (state-node.ts) on the tree of the running machine.   *)

Tree == nodesById

Node(id) == Tree.node[id]

NodeIds == Range(Tree.ids)

RECURSIVE getAncestors(_)
getAncestors(id) ==
    IF Node(id).parent = Null THEN <<id>>
    ELSE <<id>> \o getAncestors(Node(id).parent)

isDescendantOf(id, other) == id # other /\ other \in Range(getAncestors(id))

isAtomic(id) == Node(id).kind = "atomic"

isCompound(id) == Node(id).kind = "compound"

isParallel(id) == Node(id).kind = "parallel"

getTransitions(id, eventType) ==
    IF eventType \in DOMAIN Node(id).on THEN Node(id).on[eventType] ELSE <<>>

(* The root taken as the common ancestor of any two nodes.                 *)
rootAsLCA(node1, node2) == RootId

findLCA(node1, node2) ==
    LET ancestors1 == Range(getAncestors(node1))
        ancestors2 == getAncestors(node2)
        common == {k \in DOMAIN ancestors2 : ancestors2[k] \in ancestors1}
    IN  IF common = {} THEN RootId
        ELSE ancestors2[CHOOSE k \in common : \A j \in common : k <= j]

getActiveAtomicNodes(config) ==
    SelectSeq(config, LAMBDA id : id \in NodeIds /\ isAtomic(id))

-----------------------------------------------------------------------------
(* The working state of one call: context, working configuration, entry    *)
(* counters, the thrown error ("" when none), and a record of what the     *)
(* call did: `log` lists every activation, deactivation and reducer call   *)
(* in order, `fresh` says that a reducer replaced the context object,      *)
(* `rounds` counts the always rounds that applied transitions and          *)
(* `internal` says that the last such round was all target-less.           *)

Work(ctx, cfg, cnt) ==
    [ctx |-> ctx, cfg |-> cfg, cnt |-> cnt, err |-> "", log |-> <<>>,
     fresh |-> FALSE, rounds |-> 0, internal |-> FALSE]

LogEntry(k, n, r, e, role, was) ==
    [k |-> k, n |-> n, r |-> r, e |-> e, role |-> role, was |-> was]

(* executeReducer that fails as soon as the machine names, anywhere, a     *)
(* reducer that is not registered.                                         *)
failEagerly(reducerRef, st, event, state, role) ==
    IF st.err # "" THEN st
    ELSE IF \E n \in NodeIds :
                \E r \in Range(Node(n).onEntry) \cup Range(Node(n).onExit) :
                    r \notin registry.reducers
    THEN [st EXCEPT !.err = "Reducer not found"]
    ELSE [st EXCEPT
            !.ctx = Merge(@, ReducerFn(reducerRef, st.ctx, event, state)),
            !.fresh = TRUE,
            !.log = Append(@, LogEntry("run", state, reducerRef, event.type, role,
                                       state \in Range(st.cfg)))]

executeReducer(reducerRef, st, event, state, role) ==
    IF st.err # "" THEN st
    ELSE IF reducerRef \notin registry.reducers
    THEN [st EXCEPT !.err = "Reducer not found"]
    ELSE [st EXCEPT
            !.ctx = Merge(@, ReducerFn(reducerRef, st.ctx, event, state)),
            !.fresh = TRUE,
            !.log = Append(@, LogEntry("run", state, reducerRef, event.type, role,
                                       state \in Range(st.cfg)))]

RECURSIVE executeReducers(_, _, _, _, _)
executeReducers(reducerRefs, st, event, state, role) ==
    IF reducerRefs = <<>> THEN st
    ELSE executeReducers(Tail(reducerRefs),
                         executeReducer(Head(reducerRefs), st, event, state, role),
                         event, state, role)

(* activateState that stamps every entry with 1.                           *)
stampOne(cnt, id) ==
    [n \in DOMAIN cnt \cup {id} |-> IF n = id THEN 1 ELSE cnt[n]]

Increment(cnt, id) ==
    [n \in DOMAIN cnt \cup {id} |->
        IF n = id THEN (IF id \in DOMAIN cnt THEN cnt[id] ELSE 0) + 1 ELSE cnt[n]]

RECURSIVE activateState(_, _, _, _)
RECURSIVE activateRegions(_, _, _, _)
activateRegions(regions, k, event, st) ==
    IF k > Len(regions) THEN st
    ELSE activateRegions(regions, k + 1, event,
                         activateState(regions[k], event, st, TRUE))

(* activateState that never follows children.                              *)
activateNoChildren(node, event, st, followChildren) == st

(* Step 2 of activateState: the children, by node kind.                    *)
activateChildren(node, event, st, followChildren) ==
    IF ~followChildren \/ isAtomic(node) \/ st.err # "" THEN st
    ELSE IF isCompound(node)
    THEN IF Node(node).initial # Null
         THEN activateState(Node(node).initial, event, st, TRUE)
         ELSE st
    ELSE activateRegions(Node(node).regions, 1, event, st)

(* Step 3 of activateState: config.add(node.id).                           *)
addToConfiguration(node, st) ==
    IF st.err # "" THEN st ELSE [st EXCEPT !.cfg = SetAdd(@, node)]

activateState(node, event, st, followChildren) ==
    IF st.err # "" THEN st
    ELSE addToConfiguration(node,
            activateChildren(node, event,
                executeReducers(Node(node).onEntry,
                    [st EXCEPT
                        !.cnt = Increment(@, node),
                        !.log = Append(@, LogEntry("enter", node, "", event.type, "",
                                                   node \in Range(st.cfg)))],
                    event, node, "entry"),
                followChildren))

deactivateState(node, event, st) ==
    IF st.err # "" THEN st
    ELSE executeReducers(Node(node).onExit,
                         [st EXCEPT !.log = Append(@, LogEntry("exit", node, "",
                                        event.type, "", node \in Range(st.cfg)))],
                         event, node, "exit")

(* evaluateGuard: "pass", "fail", or "throw" when a guard is not registered. *)
RECURSIVE evaluateGuard(_, _, _, _)
RECURSIVE everyGuard(_, _, _, _, _)
RECURSIVE someGuard(_, _, _, _, _)
continueEvery(result, items, k, ctx, event, state) ==
    IF result = "pass" THEN everyGuard(items, k + 1, ctx, event, state) ELSE result

everyGuard(items, k, ctx, event, state) ==
    IF k > Len(items) THEN "pass"
    ELSE continueEvery(evaluateGuard(items[k], ctx, event, state),
                       items, k, ctx, event, state)

continueSome(result, items, k, ctx, event, state) ==
    IF result = "fail" THEN someGuard(items, k + 1, ctx, event, state) ELSE result

someGuard(items, k, ctx, event, state) ==
    IF k > Len(items) THEN "fail"
    ELSE continueSome(evaluateGuard(items[k], ctx, event, state),
                      items, k, ctx, event, state)

negate(result) ==
    IF result = "throw" THEN result ELSE IF result = "pass" THEN "fail" ELSE "pass"

evaluateGuard(guardRef, ctx, event, state) ==
    CASE guardRef.type \in {"string", "ref"} ->
            IF guardRef.id \notin registry.guards THEN "throw"
            ELSE IF GuardFn(guardRef.id, ctx, event, state) THEN "pass" ELSE "fail"
      [] guardRef.type = "and" -> everyGuard(guardRef.items, 1, ctx, event, state)
      [] guardRef.type = "or" -> someGuard(guardRef.items, 1, ctx, event, state)
      [] guardRef.type = "not" ->
            negate(evaluateGuard(guardRef.item, ctx, event, state))
      [] OTHER -> "pass"

(* A guarded transition taken whatever its guard says.                     *)
guardIgnored(transition, ctx, event, state) == "pass"

guardOf(transition, ctx, event, state) ==
    IF transition.guard = NoGuard THEN "pass"
    ELSE evaluateGuard(transition.guard, ctx, event, state)

-----------------------------------------------------------------------------
(* Transition selection.  The result is [sel, err]; sel lists the pairs    *)
(* [source, transition] in selection order.                                *)

RECURSIVE selectFirstEnabled(_, _, _, _, _, _)
selectChecked(guard, node, transitions, i, event, ctx, acc) ==
    IF guard = "throw" THEN [acc EXCEPT !.err = "Guard not found"]
    ELSE IF guard = "fail"
    THEN selectFirstEnabled(node, transitions, i + 1, event, ctx, acc)
    ELSE [acc EXCEPT
            !.sel = Append(@, [source |-> node, transition |-> transitions[i]]),
            !.seen = @ \cup {<<node, event.type, i>>}]

selectFirstEnabled(node, transitions, i, event, ctx, acc) ==
    IF i > Len(transitions) THEN acc
    ELSE IF <<node, event.type, i>> \in acc.seen
    THEN selectFirstEnabled(node, transitions, i + 1, event, ctx, acc)
    ELSE selectChecked(guardOf(transitions[i], ctx, event, node),
                       node, transitions, i, event, ctx, acc)

RECURSIVE selectFromAncestors(_, _, _, _, _)
climbFrom(found, ancestors, j, event, ctx) ==
    IF found.err # "" THEN found
    ELSE IF \E k \in DOMAIN found.sel :
                \/ found.sel[k].source = ancestors[j]
                \/ isDescendantOf(ancestors[j], found.sel[k].source)
    THEN found
    ELSE selectFromAncestors(ancestors, j + 1, event, ctx, found)

selectFromAncestors(ancestors, j, event, ctx, acc) ==
    IF j > Len(ancestors) \/ acc.err # "" THEN acc
    ELSE climbFrom(selectFirstEnabled(ancestors[j],
                       getTransitions(ancestors[j], event.type), 1, event, ctx, acc),
                   ancestors, j, event, ctx)

RECURSIVE selectForAtomics(_, _, _, _, _)
selectForAtomics(atomicNodes, k, event, ctx, acc) ==
    IF k > Len(atomicNodes) \/ acc.err # "" THEN acc
    ELSE selectForAtomics(atomicNodes, k + 1, event, ctx,
            selectFromAncestors(getAncestors(atomicNodes[k]), 1, event, ctx, acc))

parallelStatesWithHandlers(selected) ==
    {p \in NodeIds : /\ isParallel(p)
                     /\ \E k \in DOMAIN selected : isDescendantOf(selected[k].source, p)}

shadow(all, handled) ==
    [sel |-> SelectSeq(all.sel, LAMBDA t : ~(isParallel(t.source)
                                             /\ t.source \in handled)),
     err |-> all.err]

shadowed(all) == shadow(all, parallelStatesWithHandlers(all.sel))

selectTransitions(event, config, ctx) ==
    shadowed(selectForAtomics(getActiveAtomicNodes(config), 1, event, ctx,
                              [sel |-> <<>>, seen |-> {}, err |-> ""]))

AlwaysEvent == [type |-> "__always__", payload |-> <<>>]

RECURSIVE selectFirstAlways(_, _, _, _, _, _)
selectAlwaysChecked(guard, atomicNode, node, transitions, i, ctx, acc) ==
    IF guard = "throw" THEN [acc EXCEPT !.err = "Guard not found"]
    ELSE IF guard = "fail"
    THEN selectFirstAlways(atomicNode, node, transitions, i + 1, ctx, acc)
    ELSE [acc EXCEPT
            !.sel = Append(@, [source |-> atomicNode, transition |-> transitions[i]])]

selectFirstAlways(atomicNode, node, transitions, i, ctx, acc) ==
    IF i > Len(transitions) THEN acc
    ELSE selectAlwaysChecked(guardOf(transitions[i], ctx, AlwaysEvent, node),
                             atomicNode, node, transitions, i, ctx, acc)

RECURSIVE selectAlwaysFromAncestors(_, _, _, _, _)
climbAlwaysFrom(found, atomicNode, ancestors, j, ctx) ==
    IF found.err # "" THEN found
    ELSE IF \E k \in DOMAIN found.sel : found.sel[k].source = atomicNode
    THEN found
    ELSE selectAlwaysFromAncestors(atomicNode, ancestors, j + 1, ctx, found)

selectAlwaysFromAncestors(atomicNode, ancestors, j, ctx, acc) ==
    IF j > Len(ancestors) \/ acc.err # "" THEN acc
    ELSE climbAlwaysFrom(selectFirstAlways(atomicNode, ancestors[j],
                             Node(ancestors[j]).always, 1, ctx, acc),
                         atomicNode, ancestors, j, ctx)

RECURSIVE selectAlwaysForAtomics(_, _, _, _)
selectAlwaysForAtomics(atomicNodes, k, ctx, acc) ==
    IF k > Len(atomicNodes) \/ acc.err # "" THEN acc
    ELSE selectAlwaysForAtomics(atomicNodes, k + 1, ctx,
            selectAlwaysFromAncestors(atomicNodes[k], getAncestors(atomicNodes[k]),
                                      1, ctx, acc))

selectAlwaysTransitions(config, ctx) ==
    selectAlwaysForAtomics(getActiveAtomicNodes(config), 1, ctx,
                           [sel |-> <<>>, err |-> ""])

-----------------------------------------------------------------------------
(* Applying the selected transitions (processTransitions).                 *)

(* The exit set that always stops below the common ancestor.               *)
exitSetBelowOnly(chain, lca, target) ==
    SelectSeq(chain, LAMBDA n : isDescendantOf(n, lca))

exitSetBelow(chain, lca, target) ==
    IF target = lca /\ lca # RootId
    THEN Append(SelectSeq(chain, LAMBDA n : isDescendantOf(n, lca)), lca)
    ELSE SelectSeq(chain, LAMBDA n : isDescendantOf(n, lca))

exitSetOf(source, target) ==
    exitSetBelow(getAncestors(source), findLCA(source, target), target)

RECURSIVE Reverse(_)
Reverse(s) == IF s = <<>> THEN <<>> ELSE Append(Reverse(Tail(s)), Head(s))

entrySetBelow(chain, lca, target) ==
    IF target = lca /\ lca # RootId THEN <<lca>>
    ELSE Reverse(SelectSeq(chain, LAMBDA n : isDescendantOf(n, lca)))

entrySetOf(source, target) ==
    entrySetBelow(getAncestors(target), findLCA(source, target), target)

removeWithDescendants(node, st) ==
    IF st.err # "" THEN st
    ELSE [st EXCEPT !.cfg = SelectSeq(@, LAMBDA id :
              id # node /\ ~(id \in NodeIds /\ isDescendantOf(id, node)))]

RECURSIVE exitAll(_, _, _)
exitAll(exitSet, event, st) ==
    IF exitSet = <<>> \/ st.err # "" THEN st
    ELSE exitAll(Tail(exitSet), event,
                 removeWithDescendants(Head(exitSet),
                                       deactivateState(Head(exitSet), event, st)))

(* enterAll that follows the children of every node of the entry set.      *)
RECURSIVE enterFollowingAll(_, _, _, _)
enterFollowingAll(entrySet, i, event, st) ==
    IF i > Len(entrySet) \/ st.err # "" THEN st
    ELSE enterFollowingAll(entrySet, i + 1, event,
                           activateState(entrySet[i], event, st, TRUE))

RECURSIVE enterAll(_, _, _, _)
enterAll(entrySet, i, event, st) ==
    IF i > Len(entrySet) \/ st.err # "" THEN st
    ELSE enterAll(entrySet, i + 1, event,
                  activateState(entrySet[i], event, st, i = Len(entrySet)))

(* A transition applied without its assign reducer.                        *)
skipAssign(transition, source, event, st) == st

applyAssign(transition, source, event, st) ==
    IF transition.assign # "" /\ st.err = ""
    THEN executeReducer(transition.assign, st, event, source, "assign")
    ELSE st

deleteFromConfiguration(node, st) ==
    IF st.err # "" THEN st ELSE [st EXCEPT !.cfg = SeqWithout(@, node)]

selfTransition(source, transition, event, st) ==
    activateState(source, event,
        applyAssign(transition, source, event,
            deleteFromConfiguration(source, deactivateState(source, event, st))),
        TRUE)

externalTransition(source, transition, event, st) ==
    enterAll(entrySetOf(source, transition.target), 1, event,
        applyAssign(transition, source, event,
            exitAll(exitSetOf(source, transition.target), event, st)))

processTransition(source, transition, event, st) ==
    IF st.err # "" THEN st
    ELSE IF transition.target = Null
    THEN applyAssign(transition, source, event, st)
    ELSE IF transition.target \notin NodeIds
    THEN [st EXCEPT !.err = "Target state not found"]
    ELSE IF source = transition.target
    THEN selfTransition(source, transition, event, st)
    ELSE externalTransition(source, transition, event, st)

RECURSIVE processTransitions(_, _, _)
processTransitions(transitions, event, st) ==
    IF transitions = <<>> \/ st.err # "" THEN st
    ELSE processTransitions(Tail(transitions), event,
            processTransition(Head(transitions).source, Head(transitions).transition,
                              event, st))

(* What the caller keeps of a round: this.context and this.configuration   *)
(* are assigned only when processTransitions returned, the entry counters  *)
(* are updated in place.                                                   *)
commit(before, after) ==
    IF after.err # ""
    THEN [before EXCEPT !.cnt = after.cnt, !.log = after.log, !.err = after.err,
                        !.fresh = after.fresh]
    ELSE after

MAX_ITERATIONS == 100

(* The while loop of evaluateAlwaysTransitions.  A loop state holds the     *)
(* work so far, the value of `iterations`, and `stop` once the loop has    *)
(* been left by a break or an exception.                                   *)
afterLoop(l) ==
    IF l.st.err = "" /\ l.iterations >= MAX_ITERATIONS
    THEN [l.st EXCEPT !.err = "Maximum always transition iterations reached"]
    ELSE l.st

allInternal(transitions) ==
    \A k \in DOMAIN transitions : transitions[k].transition.target = Null

alwaysApplied(event, done, internal, iterations) ==
    IF done.err # "" THEN [st |-> done, iterations |-> iterations, stop |-> TRUE]
    ELSE [st |-> [done EXCEPT !.rounds = @ + 1, !.internal = internal],
          iterations |-> iterations, stop |-> internal]

alwaysRound(event, st, selected, iterations) ==
    IF selected.err # ""
    THEN [st |-> [st EXCEPT !.err = selected.err], iterations |-> iterations,
          stop |-> TRUE]
    ELSE IF selected.sel = <<>>
    THEN [st |-> st, iterations |-> iterations, stop |-> TRUE]
    ELSE alwaysApplied(event, commit(st, processTransitions(selected.sel, event, st)),
                       allInternal(selected.sel), iterations)

(* One pass through the loop body, when the loop condition holds.          *)
alwaysIteration(event, l) ==
    IF l.stop \/ l.iterations >= MAX_ITERATIONS THEN [l EXCEPT !.stop = TRUE]
    ELSE alwaysRound(event, l.st, selectAlwaysTransitions(l.st.cfg, l.st.ctx),
                     l.iterations + 1)

(* Up to `count` passes, the first half of them and then the rest.         *)
RECURSIVE alwaysIterations(_, _, _)
alwaysIterations(event, l, count) ==
    IF l.stop \/ count = 0 THEN l
    ELSE IF count = 1 THEN alwaysIteration(event, l)
    ELSE alwaysIterations(event, alwaysIterations(event, l, count \div 2),
                          count - (count \div 2))

alwaysLoop(event, st, iterations) ==
    afterLoop(alwaysIterations(event,
                  [st |-> st, iterations |-> iterations, stop |-> FALSE],
                  MAX_ITERATIONS - iterations))

(* A step that does not run the always loop.                               *)
skipAlwaysTransitions(event, st) == st

evaluateAlwaysTransitions(event, st) == alwaysLoop(event, st, 0)

checkFinalStates(config, wasHalted) ==
    wasHalted \/ \E k \in DOMAIN config :
                    /\ config[k] \in NodeIds
                    /\ isAtomic(config[k])
                    /\ Node(config[k]).final

-----------------------------------------------------------------------------
(* History and snapshots.                                                  *)

getSnapshot(ctx, config, counters) ==
    [context |-> ctx, configuration |-> config, stateCounters |-> counters]

timeTravelEnabled == registry.timeTravel

(* captureHistory that appends without truncating.                         *)
captureWithoutBranching(ctx, config, counters) ==
    IF ~timeTravelEnabled THEN [history |-> history, historyIndex |-> historyIndex]
    ELSE [history |-> Append(history, getSnapshot(ctx, config, counters)),
          historyIndex |-> Len(history)]

(* Array.prototype.slice(0, end): a negative end counts from the end of    *)
(* the array.                                                              *)
slice(array, end) ==
    SubSeq(array, 1, IF end < 0 THEN Max(0, Len(array) + end) ELSE Min(end, Len(array)))

(* history.push(snapshot); historyIndex = history.length - 1.              *)
pushed(kept, snapshot) ==
    [history |-> Append(kept, snapshot), historyIndex |-> Len(kept)]

(* captureHistory: the new [history, historyIndex].                        *)
captureHistory(ctx, config, counters) ==
    IF ~timeTravelEnabled THEN [history |-> history, historyIndex |-> historyIndex]
    ELSE IF historyIndex < Len(history) - 1
    THEN pushed(slice(history, historyIndex + 1), getSnapshot(ctx, config, counters))
    ELSE pushed(history, getSnapshot(ctx, config, counters))

(* The snapshots given to load.  stateCounters lists the entries of the    *)
(* object in their order.                                                  *)
LoadSnapshots(name) ==
    CASE name = "formWorkflow" ->
            {[context |-> [formData |-> [name |-> <<"A">>, email |-> <<"a", "@", "b">>],
                           errors |-> <<>>, submitAttempts |-> 1],
              configuration |-> <<<<"submitting", "success">>, <<"submitting">>>>,
              stateCounters |-> << <<<<"submitting">>, 1>>,
                                   <<<<"submitting", "success">>, 1>> >>],
             [context |-> [formData |-> [name |-> <<>>, email |-> <<>>],
                           errors |-> <<>>, submitAttempts |-> 1],
              configuration |-> <<<<"submitting", "validating">>, <<"submitting">>>>,
              stateCounters |-> << <<<<"submitting">>, 1>>,
                                   <<<<"submitting", "validating">>, 1>> >>]}
      [] name = "auto" ->
            {[context |-> [ready |-> TRUE],
              configuration |-> <<<<"done">>>>,
              stateCounters |-> << <<<<"done">>, 2>> >>],
             [context |-> [ready |-> FALSE],
              configuration |-> <<<<"idle">>>>,
              stateCounters |-> << <<<<"idle">>, 0>> >>],
             [context |-> [ready |-> TRUE],
              configuration |-> <<>>,
              stateCounters |-> <<>>],
             [context |-> [ready |-> TRUE],
              configuration |-> <<<<"idle">>, <<"nowhere">>>>,
              stateCounters |-> << <<<<"idle">>, 1>> >>],
             [context |-> [ready |-> TRUE],
              configuration |-> <<<<"idle">>>>,
              stateCounters |-> << <<<<"idle">>, 3>>, <<<<"nowhere">>, 1>> >>]}
      [] name = "regions" ->
            {[context |-> [marked |-> FALSE],
              configuration |-> <<<<"P", "r1", "a">>, <<"P", "r1">>,
                                  <<"P", "r2", "c">>, <<"P", "r2">>, <<"P">>>>,
              stateCounters |-> << <<<<"P">>, 1>>, <<<<"P", "r1">>, 1>>,
                                   <<<<"P", "r1", "a">>, 1>>, <<<<"P", "r2">>, 1>>,
                                   <<<<"P", "r2", "c">>, 1>> >>],
             [context |-> [marked |-> FALSE],
              configuration |-> <<<<"P">>, <<"P", "r2">>, <<"P", "r2", "c">>,
                                  <<"P", "r1">>, <<"P", "r1", "a">>>>,
              stateCounters |-> << <<<<"P">>, 1>>, <<<<"P", "r1">>, 1>>,
                                   <<<<"P", "r1", "a">>, 1>>, <<<<"P", "r2">>, 1>>,
                                   <<<<"P", "r2", "c">>, 1>> >>]}
      [] OTHER -> {}

-----------------------------------------------------------------------------
(* getStateValue.  A state value is a string or an object from keys to     *)
(* state values: `entries` lists the object's properties in their order.   *)

KeyValue(key) == [isKey |-> TRUE, key |-> key, entries |-> <<>>]

ObjectValue(entries) == [isKey |-> FALSE, key |-> "", entries |-> entries]

(* 'No active state found'                                                 *)
NoStateValue == [isKey |-> FALSE, key |-> "No active state found", entries |-> <<>>]

activeChildOf(node, config) ==
    SelectSeq(Node(node).children, LAMBDA c : c \in Range(config))

RECURSIVE buildStateValue(_, _, _)
RECURSIVE regionValues(_, _, _)
regionValues(regions, k, config) ==
    IF k > Len(regions) THEN <<>>
    ELSE (IF regions[k] \in Range(config)
          THEN <<[key |-> Node(regions[k]).key,
                  value |-> buildStateValue(regions[k], TRUE, config)]>>
          ELSE <<>>) \o regionValues(regions, k + 1, config)

wrapped(node, skipKey, value) ==
    IF skipKey THEN value
    ELSE ObjectValue(<<[key |-> Node(node).key, value |-> value]>>)

buildStateValue(node, skipKey, config) ==
    IF node = RootId
    THEN IF activeChildOf(node, config) = <<>> THEN NoStateValue
         ELSE buildStateValue(Head(activeChildOf(node, config)), FALSE, config)
    ELSE IF isAtomic(node)
    THEN IF skipKey THEN ObjectValue(<<>>) ELSE KeyValue(Node(node).key)
    ELSE IF isCompound(node)
    THEN IF activeChildOf(node, config) = <<>> THEN KeyValue(Node(node).key)
         ELSE wrapped(node, skipKey,
                      buildStateValue(Head(activeChildOf(node, config)), FALSE, config))
    ELSE wrapped(node, skipKey,
                 ObjectValue(regionValues(Node(node).regions, 1, config)))

getStateValue(config) == buildStateValue(RootId, FALSE, config)

-----------------------------------------------------------------------------
(* Activities.                                                             *)

ActivityMetadata(type, stateId, instanceId) ==
    [type |-> type, stateId |-> stateId, instanceId |-> instanceId]

(* isActivityRelevant that does not compare the entry counter.             *)
relevantWhileActive(metadata, config, counters) ==
    metadata.stateId \in Range(config)

isActivityRelevant(metadata, config, counters) ==
    IF metadata.stateId \notin Range(config) THEN FALSE
    ELSE (IF metadata.stateId \in DOMAIN counters
          THEN counters[metadata.stateId] ELSE 0) = metadata.instanceId

(* getActiveActivities: the items of the active nodes, as a set.           *)
getActiveActivities(config, counters) ==
    UNION {{ActivityMetadata(Node(config[k]).activities[a], config[k],
                             IF config[k] \in DOMAIN counters
                             THEN counters[config[k]] ELSE 0) :
               a \in DOMAIN Node(config[k]).activities} :
           k \in {j \in DOMAIN config : config[j] \in NodeIds}}

-----------------------------------------------------------------------------
(* The machine after construction, and its public operations.              *)

NoEvent == [type |-> "", payload |-> <<>>]

Pre ==
    [context |-> context, configuration |-> configuration,
     stateEntryCounters |-> stateEntryCounters, halted |-> halted,
     started |-> started, loaded |-> loaded, history |-> history,
     historyIndex |-> historyIndex]

(* `follows` of a call other than an ff made right after a rewind.         *)
NoCall == [op |-> "", steps |-> 0, result |-> ""]

(* The snapshot of a call that neither takes nor returns one.               *)
NoSnapshot == [context |-> context, configuration |-> <<>>, stateCounters |-> <<>>]

Called(op, event, steps, result, work, selected) ==
    [op |-> op, ev |-> event, steps |-> steps, result |-> result,
     error |-> work.err, pre |-> Pre, log |-> work.log, selected |-> selected,
     rounds |-> work.rounds, internal |-> work.internal, snapshot |-> NoSnapshot,
     follows |-> IF op = "ff" /\ last.op = "rewind"
                 THEN [op |-> last.op, steps |-> last.steps, result |-> last.result]
                 ELSE NoCall]

(* A call of load or dump: the snapshot it was given or returned.          *)
CalledWith(snapshot, op, result, work) ==
    [Called(op, NoEvent, 0, result, work, <<>>) EXCEPT !.snapshot = snapshot]

NoWork == Work(context, configuration, stateEntryCounters)

Failed(message) == [NoWork EXCEPT !.err = message]

Init ==
    /\ machine \in {name \in MachineNames : Trees[name].error = ""}
    /\ nodesById = Trees[machine]
    /\ registry = [guards |-> Configs[machine].guards,
                   reducers |-> Configs[machine].reducers,
                   timeTravel |-> Configs[machine].timeTravel]
    /\ context = Configs[machine].initialContext
    /\ configuration = <<>>
    /\ stateEntryCounters = <<>>
    /\ started = FALSE
    /\ loaded = FALSE
    /\ halted = FALSE
    /\ history = <<>>
    /\ historyIndex = -1
    /\ nsends = 0
    /\ last = [op |-> "new", ev |-> NoEvent, steps |-> 0, result |-> "ok",
               error |-> "", pre |-> [context |-> context,
                   configuration |-> <<>>, stateEntryCounters |-> <<>>,
                   halted |-> FALSE, started |-> FALSE, loaded |-> FALSE,
                   history |-> <<>>, historyIndex |-> -1],
               log |-> <<>>, selected |-> <<>>, rounds |-> 0, internal |-> FALSE,
               snapshot |-> [context |-> context, configuration |-> <<>>,
                             stateCounters |-> <<>>],
               follows |-> NoCall]

(* The runtime after a call that ran the step engine: `work` is what the   *)
(* call left in this.context, this.configuration and the counters.         *)
Runtime(work) ==
    /\ context' = work.ctx
    /\ configuration' = work.cfg
    /\ stateEntryCounters' = work.cnt

recorded(h) == history' = h.history /\ historyIndex' = h.historyIndex

Captured(work) == recorded(captureHistory(work.ctx, work.cfg, work.cnt))

InitEvent == [type |-> "__init__", payload |-> <<>>]

LoadEvent == [type |-> "__load__", payload |-> <<>>]

(* initialize: the work after activating the root's initial state and      *)
(* running the always loop.                                                *)
initialized(active) ==
    IF active.err # "" THEN active
    ELSE evaluateAlwaysTransitions(InitEvent, active)

initialize ==
    initialized(commit(NoWork,
        activateState(Node(RootId).initial, InitEvent,
                      Work(context, <<>>, stateEntryCounters), TRUE)))

(* start of a loaded machine that enters the initial state again.          *)
reinitialized(work) ==
    initialized(commit(work, activateState(Node(RootId).initial, InitEvent, work, TRUE)))

(* start of a loaded machine: the always loop on the restored runtime.     *)
resumed(work) == evaluateAlwaysTransitions(LoadEvent, work)

startWith(work) ==
    /\ Runtime(work)
    /\ IF work.err # ""
       THEN /\ last' = Called("start", NoEvent, 0, "throw", work, <<>>)
            /\ UNCHANGED <<started, halted, history, historyIndex>>
       ELSE /\ last' = Called("start", NoEvent, 0, "ok", work, <<>>)
            /\ halted' = checkFinalStates(work.cfg, halted)
            /\ started' = TRUE
            /\ Captured(work)

start ==
    /\ UNCHANGED <<machine, nodesById, registry, nsends, loaded>>
    /\ IF started
       THEN /\ last' = Called("start", NoEvent, 0, "throw",
                              Failed("State machine already started"), <<>>)
            /\ UNCHANGED <<context, configuration, stateEntryCounters, started,
                           halted, history, historyIndex>>
       ELSE startWith(IF loaded THEN resumed(NoWork) ELSE initialize)

(* send that never finds the configuration changed.                        *)
neverChanged(before, after) == FALSE

configChanged(before, after) ==
    Len(after) # Len(before) \/ ~(\A k \in DOMAIN after : after[k] \in Range(before))

sendWith(event, selected, work) ==
    /\ Runtime(work)
    /\ IF work.err # ""
       THEN /\ last' = Called("send", event, 0, "throw", work, selected)
            /\ UNCHANGED <<halted, history, historyIndex>>
       ELSE /\ last' = Called("send", event, 0, "ok", work, selected)
            /\ halted' = checkFinalStates(work.cfg, halted)
            /\ IF selected # <<>>
                  \/ configChanged(configuration, work.cfg) \/ work.fresh
               THEN Captured(work)
               ELSE UNCHANGED <<history, historyIndex>>

stabilised(event, applied) ==
    IF applied.err # "" THEN applied ELSE evaluateAlwaysTransitions(event, applied)

(* The step of send on the runtime `work`: the selected transitions, then  *)
(* the always loop.                                                        *)
processed(event, selected, work) ==
    stabilised(event,
        IF selected.err # "" THEN [work EXCEPT !.err = selected.err]
        ELSE commit(work, processTransitions(selected.sel, event, work)))

sendSelected(event, selected) ==
    sendWith(event, selected.sel, processed(event, selected, NoWork))

(* send without the early return of a halted machine.                      *)
sendWhileHalted(event) ==
    /\ nsends < MaxSendsTo(machine)
    /\ nsends' = nsends + 1
    /\ UNCHANGED <<machine, nodesById, registry, started, loaded>>
    /\ IF ~started
       THEN /\ last' = Called("send", event, 0, "throw",
                              Failed("Cannot send events: machine not started"), <<>>)
            /\ UNCHANGED <<context, configuration, stateEntryCounters, halted,
                           history, historyIndex>>
       ELSE sendSelected(event, selectTransitions(event, configuration, context))

(* send without the check that the machine is started.                     *)
sendBeforeStart(event) ==
    /\ nsends < MaxSendsTo(machine)
    /\ nsends' = nsends + 1
    /\ UNCHANGED <<machine, nodesById, registry, started, loaded>>
    /\ IF halted
       THEN /\ last' = Called("send", event, 0, "ignored", NoWork, <<>>)
            /\ UNCHANGED <<context, configuration, stateEntryCounters, halted,
                           history, historyIndex>>
       ELSE sendSelected(event, selectTransitions(event, configuration, context))

send(event) ==
    /\ nsends < MaxSendsTo(machine)
    /\ nsends' = nsends + 1
    /\ UNCHANGED <<machine, nodesById, registry, started, loaded>>
    /\ IF ~started
       THEN /\ last' = Called("send", event, 0, "throw",
                              Failed("Cannot send events: machine not started"), <<>>)
            /\ UNCHANGED <<context, configuration, stateEntryCounters, halted,
                           history, historyIndex>>
       ELSE IF halted
       THEN /\ last' = Called("send", event, 0, "ignored", NoWork, <<>>)
            /\ UNCHANGED <<context, configuration, stateEntryCounters, halted,
                           history, historyIndex>>
       ELSE sendSelected(event, selectTransitions(event, configuration, context))

(* load that leaves the entry counters as they were.                       *)
forgetCounters(entries, k, counters) == counters

(* The counters after the first k entries of snapshot.stateCounters.       *)
RECURSIVE restoreCounters(_, _, _)
restoreCounters(entries, k, counters) ==
    IF k = 0 THEN counters
    ELSE LET sofar == restoreCounters(entries, k - 1, counters)
         IN  [n \in DOMAIN sofar \cup {entries[k][1]} |->
                 IF n = entries[k][1] THEN entries[k][2] ELSE sofar[n]]

(* load that does not look at the keys of stateCounters.                   *)
anyCounterKeys(snapshot) == {}

(* The positions in snapshot.stateCounters of keys that are not nodes.     *)
unknownCounterKeys(snapshot) ==
    {k \in DOMAIN snapshot.stateCounters : snapshot.stateCounters[k][1] \notin NodeIds}

(* What a successful load leaves in the runtime of a machine whose entry   *)
(* counters were `counters`.                                               *)
restored(snapshot, counters) ==
    Work(snapshot.context, SetOfSeq(snapshot.configuration),
         restoreCounters(snapshot.stateCounters, Len(snapshot.stateCounters), counters))

load(snapshot) ==
    LET unknownStates == {k \in DOMAIN snapshot.configuration :
                             snapshot.configuration[k] \notin NodeIds}
        configSet == SetOfSeq(snapshot.configuration)
        unknownCounters == unknownCounterKeys(snapshot)
        firstUnknown == CHOOSE k \in unknownCounters : \A j \in unknownCounters : k <= j
    IN
    /\ UNCHANGED <<machine, nodesById, registry, nsends, started, halted, history, historyIndex>>
    /\ IF started \/ unknownStates # {} \/ configSet = <<>>
       THEN /\ last' = CalledWith(snapshot, "load", "throw",
                  Failed(IF started THEN "Cannot load snapshot on already started machine"
                         ELSE IF unknownStates # {}
                         THEN "Invalid snapshot: state not found in schema"
                         ELSE "Invalid snapshot: configuration is empty"))
            /\ UNCHANGED <<context, configuration, stateEntryCounters, loaded>>
       ELSE IF unknownCounters # {}
       THEN /\ last' = CalledWith(snapshot, "load", "throw",
                  Failed("Invalid snapshot: state in stateCounters not found in schema"))
            /\ context' = snapshot.context
            /\ stateEntryCounters' = restoreCounters(snapshot.stateCounters,
                                         firstUnknown - 1, stateEntryCounters)
            /\ UNCHANGED <<configuration, loaded>>
       ELSE /\ last' = CalledWith(snapshot, "load", "ok", NoWork)
            /\ Runtime(restored(snapshot, stateEntryCounters))
            /\ loaded' = TRUE

(* restoreFromSnapshot, then the new cursor.                               *)
restoreFromSnapshot(op, steps, targetIndex) ==
    LET snapshot == history[targetIndex + 1]
    IN  /\ historyIndex' = targetIndex
        /\ context' = snapshot.context
        /\ configuration' = snapshot.configuration
        /\ stateEntryCounters' = snapshot.stateCounters
        /\ halted' = checkFinalStates(snapshot.configuration, FALSE)
        /\ last' = Called(op, NoEvent, steps, "ok", NoWork, <<>>)
        /\ UNCHANGED history

timeTravel(op, steps, targetIndex) ==
    /\ targetIndex \in (0 - MaxOvershoot)..(Len(history) - 1 + MaxOvershoot)
    /\ UNCHANGED <<machine, nodesById, registry, nsends, started, loaded>>
    /\ IF ~timeTravelEnabled \/ ~started \/ Len(history) = 0
       THEN /\ last' = Called(op, NoEvent, steps, "throw",
                  Failed(IF ~timeTravelEnabled THEN "Time travel not enabled"
                         ELSE IF ~started THEN "machine not started"
                         ELSE "no history available"), <<>>)
            /\ UNCHANGED <<context, configuration, stateEntryCounters, halted,
                           history, historyIndex>>
       ELSE IF targetIndex = historyIndex
       THEN /\ last' = Called(op, NoEvent, steps, "ok", NoWork, <<>>)
            /\ UNCHANGED <<context, configuration, stateEntryCounters, halted,
                           history, historyIndex>>
       ELSE IF targetIndex \notin 0..(Len(history) - 1)
       THEN /\ historyIndex' = targetIndex
            /\ last' = Called(op, NoEvent, steps, "throw",
                              Failed("Invalid history state"), <<>>)
            /\ UNCHANGED <<context, configuration, stateEntryCounters, halted,
                           history>>
       ELSE restoreFromSnapshot(op, steps, targetIndex)

(* getStateCounters: the entries of the counter map as the object that     *)
(* JSON carries, one <<id, counter>> per key.                              *)
RECURSIVE entriesOf(_, _)
entriesOf(counters, ids) ==
    IF ids = {} THEN <<>>
    ELSE LET id == CHOOSE n \in ids : \A m \in ids : Len(n) <= Len(m)
         IN  <<<<id, counters[id]>>>> \o entriesOf(counters, ids \ {id})

getStateCounters(counters) == entriesOf(counters, DOMAIN counters)

(* The snapshot that dump serialises.  JSON.stringify and JSON.parse carry *)
(* the strings, numbers, booleans, arrays and plain objects of a snapshot  *)
(* unchanged.                                                              *)
dumped(ctx, config, counters) ==
    [context |-> ctx, configuration |-> config,
     stateCounters |-> getStateCounters(counters)]

dump ==
    /\ UNCHANGED <<machine, nodesById, registry, context, configuration,
                   stateEntryCounters, started, loaded, halted, history,
                   historyIndex, nsends>>
    /\ IF Len(configuration) = 0
       THEN last' = Called("dump", NoEvent, 0, "throw",
                           Failed("Cannot dump: machine not started"), <<>>)
       ELSE last' = CalledWith(dumped(context, configuration, stateEntryCounters),
                               "dump", "ok", NoWork)

(* ff that moves one snapshot forward whatever `steps` is.                  *)
ffByOne(steps) ==
    timeTravel("ff", steps, Min(Len(history) - 1, historyIndex + 1))

rewind(steps) == timeTravel("rewind", steps, Max(0, historyIndex - steps))

ff(steps) == timeTravel("ff", steps, Min(Len(history) - 1, historyIndex + steps))

(* The step counts given to rewind and ff: zero and the positive ones up   *)
(* to MaxSteps, and a negative one for the traffic light.                  *)
StepCounts(name) ==
    IF name = "trafficLight" THEN (0 - 1)..MaxSteps ELSE 0..MaxSteps

Next ==
    \/ start
    \/ \E snapshot \in LoadSnapshots(machine) : load(snapshot)
    \/ \E event \in Events(machine) : send(event)
    \/ \E steps \in StepCounts(machine) : rewind(steps)
    \/ \E steps \in StepCounts(machine) : ff(steps)
    \/ dump

Spec == Init /\ [][Next]_vars

-----------------------------------------------------------------------------
(* Properties of the interpreter.  `last` records the last public call, so *)
(* a statement about what a call did is a predicate on the state after it. *)

Active == Range(configuration)

Before == Range(last.pre.configuration)

Returned(ops) == last.op \in ops /\ last.result \in {"ok", "ignored"}

activeChildren(n) == {c \in Range(Node(n).children) : c \in Active}

counterOf(counters, n) == IF n \in DOMAIN counters THEN counters[n] ELSE 0

topLevelInitial == Node(RootId).initial \in Range(Node(RootId).children)

(* C1: after start, send, rewind or ff returns normally, the root and      *)
(* every active compound node have exactly one active child (machines      *)
(* whose top-level initial names a top-level state).                       *)
OneActiveChildPerCompound ==
    (Returned({"start", "send", "rewind", "ff"}) /\ topLevelInitial) =>
        /\ Cardinality(activeChildren(RootId)) = 1
        /\ \A n \in Active :
              (n \in NodeIds /\ isCompound(n)) => Cardinality(activeChildren(n)) = 1

(* C2: after start, send, rewind or ff returns normally, every active      *)
(* parallel node has all of its regions active.                            *)
AllRegionsOfActiveParallel ==
    Returned({"start", "send", "rewind", "ff"}) =>
        \A n \in Active :
            (n \in NodeIds /\ isParallel(n)) =>
                \A k \in DOMAIN Node(n).regions : Node(n).regions[k] \in Active

(* C3: after start, send, rewind or ff returns normally, every active node *)
(* has all of its proper ancestors below the root active.                  *)
AncestorsOfActiveAreActive ==
    Returned({"start", "send", "rewind", "ff"}) =>
        \A n \in Active :
            n \in NodeIds =>
                \A a \in Range(getAncestors(n)) : (a # n /\ a # RootId) => a \in Active

finalAtomicActive ==
    \E n \in Active : n \in NodeIds /\ isAtomic(n) /\ Node(n).final

(* C4: after load, start, send, rewind or ff returns normally, halted is   *)
(* true exactly when an atomic node flagged final is active.               *)
HaltedIffFinalActive ==
    Returned({"load", "start", "send", "rewind", "ff"}) =>
        (halted <=> finalAtomicActive)

(* C5: send on a halted machine returns without error and leaves context,  *)
(* configuration, entry counters, history and the history cursor as they   *)
(* were.                                                                   *)
HaltedSendChangesNothing ==
    (last.op = "send" /\ last.pre.halted) =>
        /\ last.result \in {"ok", "ignored"}
        /\ context = last.pre.context
        /\ configuration = last.pre.configuration
        /\ stateEntryCounters = last.pre.stateEntryCounters
        /\ history = last.pre.history
        /\ historyIndex = last.pre.historyIndex
        /\ halted

(* A halted machine was sent an event for which an active state declares a *)
(* handler.                                                                *)
HaltedSendReached ==
    /\ last.op = "send"
    /\ last.pre.halted
    /\ \E n \in Active : getTransitions(n, last.ev.type) # <<>>


noAlwaysTransitions == \A n \in NodeIds : Node(n).always = <<>>

RECURSIVE initialClosure(_)
initialClosure(n) ==
    {n} \cup (IF isCompound(n)
              THEN (IF Node(n).initial = Null THEN {}
                    ELSE initialClosure(Node(n).initial))
              ELSE IF isParallel(n)
              THEN UNION {initialClosure(Node(n).regions[k]) :
                             k \in DOMAIN Node(n).regions}
              ELSE {})

freshStart == last.op = "start" /\ last.result = "ok" /\ ~last.pre.loaded

stepReturned == last.op \in {"start", "send"} /\ last.result = "ok"

noTargetedAlwaysSelected ==
    \A k \in DOMAIN selectAlwaysTransitions(configuration, context).sel :
        selectAlwaysTransitions(configuration, context).sel[k].transition.target = Null

stoppedOnInternalRound == last.rounds > 0 /\ last.internal

logIndexes(kind, n) ==
    {i \in DOMAIN last.log : last.log[i].k = kind /\ last.log[i].n = n}

entryRuns(n) ==
    {i \in DOMAIN last.log : /\ last.log[i].k = "run"
                             /\ last.log[i].n = n
                             /\ last.log[i].role = "entry"}

(* The last call was a send whose single event transition entered the      *)
(* compound node C, inactive before, whose initial child declares two      *)
(* always-transitions to siblings: a guarded one, then an unguarded one.   *)
enteredGuardedChoice(C) ==
    /\ last.op = "send"
    /\ last.result = "ok"
    /\ Len(last.selected) = 1
    /\ last.selected[1].transition.target = C
    /\ isCompound(C)
    /\ C \notin Before
    /\ Node(C).initial # Null
    /\ Len(Node(Node(C).initial).always) = 2
    /\ Node(Node(C).initial).always[1].guard # NoGuard
    /\ Node(Node(C).initial).always[2].guard = NoGuard
    /\ \A k \in 1..2 :
          /\ Node(Node(C).initial).always[k].target \in Range(Node(C).children)
          /\ Node(Node(C).initial).always[k].target # Node(C).initial

chosenBy(transitions, ctx, state) ==
    IF evaluateGuard(transitions[1].guard, ctx, AlwaysEvent, state) = "pass"
    THEN transitions[1].target
    ELSE transitions[2].target

(* C8: when an event transition enters a compound node C whose initial     *)
(* child has a guarded always-transition and an unguarded fallback to      *)
(* siblings, the same send leaves as C's only active child the target the  *)
(* guard chooses, C's entry actions applied once each, C's counter and the *)
(* initial child's counter one higher, and the initial child inactive.     *)
AlwaysTakenInSameSend ==
    \A C \in NodeIds :
        enteredGuardedChoice(C) =>
            /\ activeChildren(C) =
                  {chosenBy(Node(Node(C).initial).always, context, Node(C).initial)}
            /\ Cardinality(logIndexes("enter", C)) = 1
            /\ Cardinality(entryRuns(C)) = Len(Node(C).onEntry)
            /\ counterOf(stateEntryCounters, C) =
                  counterOf(last.pre.stateEntryCounters, C) + 1
            /\ counterOf(stateEntryCounters, Node(C).initial) =
                  counterOf(last.pre.stateEntryCounters, Node(C).initial) + 1
            /\ Node(C).initial \notin Active

(* SUBMIT with invalid form data: the fallback was taken and the entry     *)
(* action of `submitting` ran.                                             *)
SubmitLandedInFailed ==
    /\ enteredGuardedChoice(<<"submitting">>)
    /\ <<"submitting", "failed">> \in Active
    /\ context.submitAttempts = last.pre.context.submitAttempts + 1

(* The last call was a send whose single event transition went from an     *)
(* active state to a sibling, both children of the region R of the active  *)
(* parallel node P, and no always-transition followed.                     *)
siblingStepIn(R, P) ==
    /\ last.op = "send"
    /\ last.result = "ok"
    /\ last.rounds = 0
    /\ Len(last.selected) = 1
    /\ last.selected[1].transition.target # Null
    /\ last.selected[1].transition.target # last.selected[1].source
    /\ Node(last.selected[1].source).parent = R
    /\ Node(last.selected[1].transition.target).parent = R
    /\ last.selected[1].source \in Before
    /\ isParallel(P)
    /\ P \in Before
    /\ R \in Range(Node(P).regions)

inOtherRegion(n, R, P) == isDescendantOf(n, P) /\ n # R /\ ~isDescendantOf(n, R)

(* C9: a transition between two sibling states inside one region of an     *)
(* active parallel node keeps the active nodes of the other regions in     *)
(* the configuration, keeps their entry counters, and applies none of      *)
(* their entry or exit actions.                                            *)
OtherRegionsUntouched ==
    \A P \in NodeIds : \A R \in NodeIds :
        siblingStepIn(R, P) =>
            \A n \in NodeIds :
                inOtherRegion(n, R, P) =>
                    /\ n \in Active <=> n \in Before
                    /\ counterOf(stateEntryCounters, n) =
                          counterOf(last.pre.stateEntryCounters, n)
                    /\ \A i \in DOMAIN last.log : last.log[i].n # n

(* A sibling step in one region while another region has an active leaf.   *)
SiblingStepBesideActiveRegion ==
    \E P \in NodeIds : \E R \in NodeIds :
        /\ siblingStepIn(R, P)
        /\ \E n \in Active : inOtherRegion(n, R, P) /\ isAtomic(n)

(* The k-th selected transition of the last send was declared on the       *)
(* active non-atomic node N and targets a state outside N.                 *)
leftBy(N, k) ==
    /\ last.op = "send"
    /\ last.result = "ok"
    /\ last.selected[k].source = N
    /\ ~isAtomic(N)
    /\ N \in Before
    /\ last.selected[k].transition.target # Null
    /\ last.selected[k].transition.target # N
    /\ ~isDescendantOf(last.selected[k].transition.target, N)

exitRuns(n) ==
    {i \in DOMAIN last.log : /\ last.log[i].k = "run"
                             /\ last.log[i].n = n
                             /\ last.log[i].role = "exit"}

exitActionsApplied(n) == Cardinality(exitRuns(n)) = Len(Node(n).onExit)

exitedBefore(d, n) == \A i \in exitRuns(d) : \A j \in exitRuns(n) : i < j

(* C10: when an event transition declared on an active parallel or         *)
(* compound node N targets a state outside N, the exit actions of every    *)
(* active descendant of N are applied, after those of its own active       *)
(* descendants and before those of N, and afterwards N and its             *)
(* descendants are inactive and the target is active.                      *)
DescendantsExitLeafFirst ==
    \A N \in NodeIds : \A k \in DOMAIN last.selected :
        (leftBy(N, k) /\ Len(last.selected) = 1 /\ last.rounds = 0) =>
            /\ exitActionsApplied(N)
            /\ \A d \in Before :
                  (d \in NodeIds /\ isDescendantOf(d, N)) =>
                      /\ exitActionsApplied(d)
                      /\ exitedBefore(d, N)
                      /\ \A e \in Before :
                            (e \in NodeIds /\ isDescendantOf(e, d)) => exitedBefore(e, d)
            /\ N \notin Active
            /\ \A d \in Active : ~(d \in NodeIds /\ isDescendantOf(d, N))
            /\ last.selected[k].transition.target \in Active

sendProcessed == last.op = "send" /\ last.pre.started /\ ~last.pre.halted

passing(n, event, ctx) ==
    {i \in DOMAIN getTransitions(n, event.type) :
        guardOf(getTransitions(n, event.type)[i], ctx, event, n) = "pass"}

handlers(a, event, ctx) ==
    {j \in DOMAIN getAncestors(a) : passing(getAncestors(a)[j], event, ctx) # {}}

(* The first guard-passing transition of the node nearest to a.            *)
nearest(chain, j, event, ctx) ==
    [source |-> chain[j],
     transition |-> getTransitions(chain[j], event.type)[
                        CHOOSE i \in passing(chain[j], event, ctx) :
                            \A h \in passing(chain[j], event, ctx) : i <= h]]

innermost(a, event, ctx) ==
    nearest(getAncestors(a),
            CHOOSE j \in handlers(a, event, ctx) :
                \A h \in handlers(a, event, ctx) : j <= h,
            event, ctx)

candidates(event, config, ctx) ==
    selectForAtomics(getActiveAtomicNodes(config), 1, event, ctx,
                     [sel |-> <<>>, seen |-> {}, err |-> ""]).sel

(* C11: for every active atomic node a and event E, if a node on the chain *)
(* from a to the root declares a guard-passing transition for E, the first *)
(* such transition of the nearest such node is among the candidates        *)
(* selected, whatever the other active atomic nodes selected.              *)
InnermostCandidatePerAtomic ==
    sendProcessed =>
        \A a \in Range(getActiveAtomicNodes(last.pre.configuration)) :
            handlers(a, last.ev, last.pre.context) # {} =>
                innermost(a, last.ev, last.pre.context)
                    \in Range(candidates(last.ev, last.pre.configuration,
                                         last.pre.context))

handledBelow(P, event, config, ctx) ==
    \E a \in Range(getActiveAtomicNodes(config)) :
        \E j \in DOMAIN getAncestors(a) :
            /\ isDescendantOf(getAncestors(a)[j], P)
            /\ passing(getAncestors(a)[j], event, ctx) # {}

appliedOn(P) == \E k \in DOMAIN last.selected : last.selected[k].source = P

(* C12: if a strict descendant of an active parallel node P, on the path   *)
(* of an active atomic node, has a guard-passing transition for the event, *)
(* no transition declared on P is applied in that step.                    *)
RegionHandlerShadowsParallel ==
    (sendProcessed /\ last.result = "ok") =>
        \A P \in Before :
            (P \in NodeIds /\ isParallel(P)
             /\ handledBelow(P, last.ev, last.pre.configuration, last.pre.context))
                => ~appliedOn(P)

declarationOf(n) ==
    CHOOSE i \in DOMAIN Configs[machine].states : DeclId(Configs[machine].states, i) = n

(* The transitions of node n as written in the configuration.              *)
written(n) == compileTransitions(Configs[machine].states[declarationOf(n)].on)

siblingsNamed(n, key) ==
    {c \in Range(Node(Node(n).parent).children) : Node(c).key = key}

bareKey(target) == target # Null /\ Len(target) = 1

siblingFirst(n, target) ==
    IF siblingsNamed(n, target[1]) # {}
    THEN CHOOSE c \in siblingsNamed(n, target[1]) : TRUE
    ELSE target

(* C13: a transition target written as a bare key resolves to the sibling  *)
(* of the source with that key when there is one, and to the top-level     *)
(* state of that key only when the source has no such sibling.             *)
BareKeyResolvesToSibling ==
    \A n \in NodeIds \ {RootId} :
        \A e \in DOMAIN Node(n).on :
            \A k \in DOMAIN Node(n).on[e] :
                bareKey(written(n)[e][k].target) =>
                    Node(n).on[e][k].target = siblingFirst(n, written(n)[e][k].target)

-----------------------------------------------------------------------------
(* Snapshots: dump, load and the start of a loaded machine.                *)

dumpReturned == last.op = "dump" /\ last.result = "ok" /\ started

(* load's validation of a snapshot on a machine that is not started.       *)
accepted(snapshot) ==
    /\ snapshot.configuration # <<>>
    /\ \A k \in DOMAIN snapshot.configuration : snapshot.configuration[k] \in NodeIds
    /\ \A k \in DOMAIN snapshot.stateCounters : snapshot.stateCounters[k][1] \in NodeIds

(* The runtime of a fresh machine after load(snapshot) and start().        *)
reloaded(snapshot) == resumed(restored(snapshot, <<>>))

(* m2 is where this machine is: the context, the configuration in its      *)
(* order, the entry counters and the halted flag are all that send reads,  *)
(* so equal runtimes give equal snapshots after every later event.         *)
sameRuntime(m2) ==
    /\ m2.err = ""
    /\ m2.ctx = context
    /\ m2.cfg = configuration
    /\ m2.cnt = stateEntryCounters
    /\ checkFinalStates(m2.cfg, FALSE) = halted

alwaysPending(selected) == selected.sel # <<>> \/ selected.err # ""

loadReturned == last.op = "load" /\ last.result = "ok"

loadedStart == last.op = "start" /\ last.result = "ok" /\ last.pre.loaded

keptBy(n) == n \in Before /\ logIndexes("exit", n) = {}

unchangedRuntime ==
    /\ context = last.pre.context
    /\ configuration = last.pre.configuration
    /\ stateEntryCounters = last.pre.stateEntryCounters

(* C15: after load returns, context and configuration are those of the     *)
(* snapshot even when an always-transition is selected there, and the      *)
(* machine is not started; the following start runs the always loop on     *)
(* the restored runtime: it changes nothing when no always-transition is   *)
(* selected, and a restored node that the loop does not exit is not        *)
(* entered again, runs no entry action and keeps its entry counter.        *)
LoadInstallsStartResumes ==
    /\ loadReturned =>
          /\ context = last.snapshot.context
          /\ configuration = last.snapshot.configuration
          /\ ~started
    /\ loadedStart =>
          /\ started
          /\ (last.rounds > 0) <=>
                 alwaysPending(selectAlwaysTransitions(last.pre.configuration,
                                                       last.pre.context))
          /\ (last.rounds = 0) => (unchangedRuntime /\ last.log = <<>>)
          /\ \A n \in Before :
                keptBy(n) =>
                    /\ logIndexes("enter", n) = {}
                    /\ entryRuns(n) = {}
                    /\ counterOf(stateEntryCounters, n)
                           = counterOf(last.pre.stateEntryCounters, n)

LoadedStartRanAlwaysLoop ==
    /\ loadedStart
    /\ last.rounds > 0
    /\ \E n \in Before : keptBy(n) /\ n \in Active

LoadedWithAlwaysPending ==
    loadReturned /\ alwaysPending(selectAlwaysTransitions(configuration, context))

loadCalled == last.op = "load" /\ ~last.pre.started

-----------------------------------------------------------------------------
(* Lifecycle errors.                                                       *)

lifecycleError ==
    \/ last.op = "start" /\ last.pre.started
    \/ last.op = "send" /\ ~last.pre.started
    \/ last.op = "load" /\ last.pre.started
    \/ last.op \in {"rewind", "ff"} /\ (~timeTravelEnabled \/ ~last.pre.started)
    \/ last.op = "dump" /\ last.pre.configuration = <<>>

(* C17: start on a started machine, send before start, load after start,   *)
(* rewind or ff with time travel disabled or before start, and dump with   *)
(* an empty configuration throw, and leave context, configuration, entry   *)
(* counters, the started, loaded and halted flags, history and the cursor  *)
(* as they were before the call.                                           *)
LifecycleErrorsChangeNothing ==
    lifecycleError => (last.result = "throw" /\ Pre = last.pre)

SendBeforeStartOnLoaded ==
    /\ last.op = "send"
    /\ ~last.pre.started
    /\ last.pre.loaded
    /\ last.result = "throw"
    /\ configuration # <<>>

-----------------------------------------------------------------------------
(* Time travel.                                                            *)

travelCalled ==
    last.op \in {"rewind", "ff"} /\ last.pre.started /\ timeTravelEnabled

atSnapshot(snapshot) ==
    /\ context = snapshot.context
    /\ configuration = snapshot.configuration
    /\ stateEntryCounters = snapshot.stateCounters

(* C18: on a started machine with time travel enabled, rewind(n) returns   *)
(* with the cursor at cursor - min(n, cursor) and ff(n) with the cursor at *)
(* cursor + min(n, length - 1 - cursor); history is unchanged, and         *)
(* context, configuration and entry counters are those of the snapshot at  *)
(* the new cursor.                                                         *)
TravelRestoresSnapshotAtCursor ==
    travelCalled =>
        /\ last.result = "ok"
        /\ (last.op = "rewind") =>
              historyIndex = last.pre.historyIndex
                               - Min(last.steps, last.pre.historyIndex)
        /\ (last.op = "ff") =>
              historyIndex = last.pre.historyIndex
                               + Min(last.steps,
                                     Len(last.pre.history) - 1 - last.pre.historyIndex)
        /\ history = last.pre.history
        /\ atSnapshot(history[historyIndex + 1])

(* The last call was a send that returned, made on a machine that was not  *)
(* halted and whose cursor was not at the end of history.                  *)
sentOffEnd ==
    /\ last.op = "send"
    /\ last.result = "ok"
    /\ last.pre.started
    /\ ~last.pre.halted
    /\ timeTravelEnabled
    /\ last.pre.historyIndex < Len(last.pre.history) - 1

(* The snapshots up to the old cursor; for a cursor below -1, which a ff   *)
(* with a negative count leaves behind, all but the last -1 - cursor.      *)
keptPast ==
    IF last.pre.historyIndex >= 0 - 1
    THEN SubSeq(last.pre.history, 1,
                Min(last.pre.historyIndex + 1, Len(last.pre.history)))
    ELSE SubSeq(last.pre.history, 1,
                Len(last.pre.history) + last.pre.historyIndex + 1)

branched ==
    /\ history = Append(keptPast,
                        getSnapshot(context, configuration, stateEntryCounters))
    /\ historyIndex = Len(history) - 1

stepChanged ==
    \/ last.selected # <<>>
    \/ configChanged(last.pre.configuration, configuration)
    \/ context # last.pre.context

ffAfterRewind ==
    /\ last.op = "rewind"
    /\ last.result = "ok"
    /\ last'.op = "ff"
    /\ last'.steps = last.steps

backWhereItWas ==
    /\ last'.result = "ok"
    /\ historyIndex' = last.pre.historyIndex
    /\ context' = last.pre.context
    /\ configuration' = last.pre.configuration
    /\ stateEntryCounters' = last.pre.stateEntryCounters

unclampedFromSnapshot ==
    /\ last.steps >= 0
    /\ last.pre.historyIndex \in 0..(Len(last.pre.history) - 1)
    /\ \/ last.steps <= last.pre.historyIndex
       \/ last.pre.historyIndex = Len(last.pre.history) - 1
    /\ last.pre.context = last.pre.history[last.pre.historyIndex + 1].context
    /\ last.pre.configuration
          = last.pre.history[last.pre.historyIndex + 1].configuration
    /\ last.pre.stateEntryCounters
          = last.pre.history[last.pre.historyIndex + 1].stateCounters

-----------------------------------------------------------------------------
(* What history records.                                                   *)

recordedStart == timeTravelEnabled /\ last.op = "start" /\ last.result = "ok"

recordedSend == timeTravelEnabled /\ sendProcessed /\ last.result = "ok"

onlySnapshot ==
    /\ history = <<getSnapshot(context, configuration, stateEntryCounters)>>
    /\ historyIndex = 0

sameHistory == history = last.pre.history /\ historyIndex = last.pre.historyIndex

reducerRan == \E i \in DOMAIN last.log : last.log[i].k = "run"

(* C21 as stated: start records one snapshot at index 0, and a send        *)
(* appends one snapshot and moves the cursor to it exactly when the step   *)
(* changed the configuration or the context; otherwise history and the     *)
(* cursor stay as they were.                                               *)
SnapshotIffStateChanged ==
    /\ recordedStart => onlySnapshot
    /\ recordedSend =>
          IF Active # Before \/ context # last.pre.context
          THEN branched ELSE sameHistory

(* C21: start records one snapshot at index 0, and a send appends one      *)
(* snapshot and moves the cursor to it exactly when it selected an event   *)
(* transition, or changed the configuration, or ran a reducer; otherwise   *)
(* history and the cursor stay as they were.                               *)
SnapshotIffTransitionOrChange ==
    /\ recordedStart => onlySnapshot
    /\ recordedSend =>
          IF last.selected # <<>> \/ Active # Before \/ reducerRan
          THEN branched ELSE sameHistory

RecordedUnchangedStep ==
    /\ recordedSend
    /\ last.selected # <<>>
    /\ Active = Before
    /\ context = last.pre.context
    /\ stateEntryCounters = last.pre.stateEntryCounters
    /\ branched

-----------------------------------------------------------------------------
(* Entry counters.                                                         *)

newlyCounted == DOMAIN stateEntryCounters \ DOMAIN last.pre.stateEntryCounters

(* C22: after the constructor, start, send, rewind, ff and a load that     *)
(* returned, every id in the entry-counter map has a counter of at least   *)
(* 1, and an id that start or send added to the map was entered by that    *)
(* call.                                                                   *)
CountedNodesWereEntered ==
    (last.op \in {"new", "start", "send", "rewind", "ff"} \/ loadReturned) =>
        /\ \A n \in DOMAIN stateEntryCounters : stateEntryCounters[n] >= 1
        /\ (last.op \in {"start", "send"}) =>
              \A n \in newlyCounted : logIndexes("enter", n) # {}

grownBy(n) == Cardinality(logIndexes("enter", n))

(* C23 as stated: no entry counter is lower after start, send, rewind or   *)
(* ff than it was before the call.                                         *)
CountersNeverDecrease ==
    (last.op \in {"start", "send", "rewind", "ff"}) =>
        \A n \in DOMAIN last.pre.stateEntryCounters :
            counterOf(stateEntryCounters, n) >= last.pre.stateEntryCounters[n]

(* C23: across start and send every entry counter grows by the number of   *)
(* entries of its node in that call, so no counter decreases and each      *)
(* entry gets a counter value that no earlier entry on this timeline got.  *)
CountersGrowByEntries ==
    (last.op \in {"start", "send"}) =>
        \A n \in NodeIds :
            counterOf(stateEntryCounters, n)
                = counterOf(last.pre.stateEntryCounters, n) + grownBy(n)

EnteredAgain ==
    /\ last.op = "send"
    /\ last.result = "ok"
    /\ \E n \in DOMAIN last.pre.stateEntryCounters :
          /\ last.pre.stateEntryCounters[n] >= 1
          /\ stateEntryCounters[n] > last.pre.stateEntryCounters[n]

-----------------------------------------------------------------------------
(* Activities and entry counters.                                          *)

relevantNow(item) == isActivityRelevant(item, configuration, stateEntryCounters)

relevantBefore(item) ==
    isActivityRelevant(item, last.pre.configuration, last.pre.stateEntryCounters)

leftDuringCall(n) == n \notin Active \/ logIndexes("exit", n) # {}

(* The items that may have been recorded for node n before the call.       *)
stampedBefore(n) ==
    {ActivityMetadata(Node(n).activities[a], n, i) :
        <<a, i>> \in (DOMAIN Node(n).activities)
                        \X (1..counterOf(last.pre.stateEntryCounters, n))}

(* C24: isActivityRelevant holds exactly for an active node and its        *)
(* current entry counter; every item of getActiveActivities is relevant;   *)
(* across a send, an item that was active before and whose node the send   *)
(* left is not relevant afterwards, and an item stamped earlier that was   *)
(* not relevant before the send is not relevant after it, re-entered or    *)
(* not.                                                                    *)
StaleActivitiesStayStale ==
    /\ \A n \in NodeIds : \A i \in 0..(counterOf(stateEntryCounters, n) + 1) :
          relevantNow(ActivityMetadata("poll", n, i))
              <=> (n \in Active /\ counterOf(stateEntryCounters, n) = i)
    /\ \A item \in getActiveActivities(configuration, stateEntryCounters) :
          relevantNow(item)
    /\ (last.op = "send") =>
          /\ \A item \in getActiveActivities(last.pre.configuration,
                                              last.pre.stateEntryCounters) :
                leftDuringCall(item.stateId) => ~relevantNow(item)
          /\ \A n \in NodeIds : \A item \in stampedBefore(n) :
                ~relevantBefore(item) => ~relevantNow(item)

ReenteredWithActivity ==
    /\ last.op = "send"
    /\ last.result = "ok"
    /\ \E n \in Active \ Before :
          /\ Node(n).activities # <<>>
          /\ stateEntryCounters[n] >= 2

-----------------------------------------------------------------------------
(* The cap of the always loop.                                             *)

divergence == "Maximum always transition iterations reached"

(* C25: the always loop of a start or send applies at most 100 rounds, and *)
(* the call fails with the divergence error only when all 100 rounds       *)
(* applied a transition with a target.                                     *)
DivergenceOnlyAfterFullCap ==
    (last.op \in {"start", "send"}) =>
        /\ last.rounds <= MAX_ITERATIONS
        /\ (last.error = divergence) =>
              (last.rounds = MAX_ITERATIONS /\ ~last.internal)

-----------------------------------------------------------------------------
(* The order of a snapshot's configuration.                                *)

sameButOrder(s1, s2) ==
    /\ s1.context = s2.context
    /\ s1.stateCounters = s2.stateCounters
    /\ Len(s1.configuration) = Len(s2.configuration)
    /\ Range(s1.configuration) = Range(s2.configuration)

agree(m1, m2) ==
    /\ m1.err = m2.err
    /\ m1.ctx = m2.ctx
    /\ Range(m1.cfg) = Range(m2.cfg)
    /\ m1.cnt = m2.cnt

(* send(event) on a started machine whose runtime is m.                    *)
sentTo(event, m) ==
    IF m.err # "" \/ checkFinalStates(m.cfg, FALSE) THEN m
    ELSE processed(event, selectTransitions(event, m.cfg, m.ctx), m)

agreeAfterSend(m1, m2) ==
    /\ agree(m1, m2)
    /\ \A event \in Events(machine) : agree(sentTo(event, m1), sentTo(event, m2))

(* C26: when load has accepted a snapshot, a fresh machine loaded with a   *)
(* snapshot that differs from it only in the order of `configuration` has, *)
(* after start and after start and any one event, the same context, the    *)
(* same configuration as a set and the same entry counters, hence the same *)
(* state value.                                                            *)
ConfigurationOrderIrrelevant ==
    loadReturned =>
        \A s2 \in LoadSnapshots(machine) :
            sameButOrder(last.snapshot, s2) =>
                agreeAfterSend(reloaded(last.snapshot), reloaded(s2))

-----------------------------------------------------------------------------
(* The traffic light.                                                      *)

(* The machine was started and every send since was a TIMER that it        *)
(* processed; no rewind came before any of them.                           *)
timersSent ==
    /\ machine = "trafficLight"
    /\ last.op = "send"
    /\ last.result = "ok"
    /\ Len(history) = nsends + 1
    /\ historyIndex = nsends

lightAfter(timers) ==
    KeyValue(<<"green", "yellow", "red">>[(timers % 3) + 1])

(* C27 as stated: after start and four TIMER events the state value is     *)
(* "green" and cycleCount is 1.                                            *)
FourTimersBackToGreen ==
    (timersSent /\ nsends = 4) =>
        (getStateValue(configuration) = KeyValue("green") /\ context.cycleCount = 1)

(* C27: after start and n TIMER events the light is the n-th after green   *)
(* in the cycle green, yellow, red, and cycleCount is the number of times  *)
(* green was left: "green" and 1 after three events, "yellow" and 2 after  *)
(* four.                                                                   *)
TimersCycleTheLight ==
    timersSent =>
        /\ getStateValue(configuration) = lightAfter(nsends)
        /\ context.cycleCount = (nsends + 2) \div 3
        /\ (nsends = 3) => getStateValue(configuration) = KeyValue("green")
        /\ (nsends = 4) => (getStateValue(configuration) = KeyValue("yellow")
                            /\ context.cycleCount = 2)

ThreeTimersBackToGreen ==
    /\ timersSent
    /\ nsends = 3
    /\ getStateValue(configuration) = KeyValue("green")
    /\ context.cycleCount = 1

-----------------------------------------------------------------------------
(* What the constructor accepts.                                           *)

topLevelKeys(config) ==
    {<<config.states[i].key>> : i \in {j \in DOMAIN config.states :
                                          config.states[j].parent = 0}}

childKeys(config, i) ==
    {config.states[j].key : j \in {k \in DOMAIN config.states :
                                      config.states[k].parent = i}}

badInitial(config) ==
    \/ config.initial \notin topLevelKeys(config)
    \/ \E i \in DOMAIN config.states :
          /\ DeclKind(config.states, i) = "compound"
          /\ config.states[i].initial \notin childKeys(config, i)

(* C28: a machine exists only if construction did not fail, so the         *)
(* top-level `initial` of every constructed machine is the key of a        *)
(* top-level state and the `initial` of each of its compound states is the *)
(* key of one of that state's children.                                    *)
ConstructedInitialsAreChildren == ~badInitial(Configs[machine])

-----------------------------------------------------------------------------
(* Names that resolve to nothing: guards and reducers missing from the     *)
(* registry, transition targets that name no state.                        *)

RECURSIVE guardNames(_)
guardNames(guardRef) ==
    CASE guardRef.type \in {"string", "ref"} -> {guardRef.id}
      [] guardRef.type \in {"and", "or"} ->
            UNION {guardNames(guardRef.items[i]) : i \in DOMAIN guardRef.items}
      [] guardRef.type = "not" -> guardNames(guardRef.item)
      [] OTHER -> {}

(* The nodes a call had to do with: those active before it, those it       *)
(* entered, and their ancestors up to the root.                            *)
touched ==
    LET ids == (Before \cup {last.log[i].n : i \in {j \in DOMAIN last.log :
                                                   last.log[j].k = "enter"}})
               \cap NodeIds
    IN  {RootId} \cup UNION {Range(getAncestors(n)) : n \in ids}

(* The transitions of a touched node that the call could consider: those   *)
(* for the event sent and the always-transitions.                          *)
considered(n) ==
    Range(Node(n).always)
    \cup (IF last.op = "send" THEN Range(getTransitions(n, last.ev.type)) ELSE {})

reachedGuard ==
    \E n \in touched : \E t \in considered(n) :
        guardNames(t.guard) \ registry.guards # {}

reachedReducer ==
    \E n \in touched :
        \/ \E r \in Range(Node(n).onEntry) \cup Range(Node(n).onExit) :
                r \notin registry.reducers
        \/ \E t \in considered(n) : t.assign # "" /\ t.assign \notin registry.reducers

reachedTarget ==
    \E n \in touched : \E t \in considered(n) :
        t.target # Null /\ t.target \notin NodeIds

(* The machine names a guard, a reducer or a target that does not exist.   *)
namesUnknown ==
    \E n \in NodeIds :
        \/ \E r \in Range(Node(n).onEntry) \cup Range(Node(n).onExit) :
                r \notin registry.reducers
        \/ \E type \in DOMAIN Node(n).on : \E t \in Range(Node(n).on[type]) :
                \/ guardNames(t.guard) \ registry.guards # {}
                \/ t.assign # "" /\ t.assign \notin registry.reducers
                \/ t.target # Null /\ t.target \notin NodeIds

(* C29: a start or a send fails with "guard not found", "reducer not       *)
(* found" or "target state not found" only when a node the call had to do  *)
(* with declares, for the event sent, as an always-transition or as an     *)
(* entry or exit action, such a guard, reducer or target; every other      *)
(* call on a machine that names unknown things ends as it would without    *)
(* them.                                                                   *)
UnknownNamesFailOnlyWhenReached ==
    last.op \in {"start", "send"} =>
        /\ last.error = "Guard not found" => reachedGuard
        /\ last.error = "Reducer not found" => reachedReducer
        /\ last.error = "Target state not found" => reachedTarget

(* A send completed normally on a started machine that names an unknown    *)
(* reducer, an unknown guard and an unresolvable target.                   *)
SentPastUnknownNames ==
    /\ namesUnknown
    /\ last.op = "send" /\ last.result = "ok" /\ last.selected # <<>>
    /\ ~reachedGuard /\ ~reachedReducer /\ ~reachedTarget

-----------------------------------------------------------------------------
(* Transition instances in one selection round.                            *)

(* The runtime as the last send found it, as the transitions selected for  *)
(* its event left it, and the first always round selected after that.      *)
foundBySend == Work(last.pre.context, last.pre.configuration, last.pre.stateEntryCounters)

afterEvent == commit(foundBySend, processTransitions(last.selected, last.ev, foundBySend))

firstRound == selectAlwaysTransitions(afterEvent.cfg, afterEvent.ctx)

(* The node that declares the always-transition selected for `source`: the *)
(* nearest one among source and its ancestors.                            *)
declaredOn(source, transition) ==
    LET anc == getAncestors(source)
        idx == {j \in DOMAIN anc : transition \in Range(Node(anc[j]).always)}
    IN  IF idx = {} THEN source
        ELSE anc[CHOOSE j \in idx : \A k \in idx : j <= k]

instances(sel) ==
    {[node |-> declaredOn(sel[i].source, sel[i].transition),
      transition |-> sel[i].transition] : i \in DOMAIN sel}

assignsRun(log) ==
    Cardinality({i \in DOMAIN log : log[i].k = "run" /\ log[i].role = "assign"})

alwaysRoundOf(event, st, sel) ==
    /\ Cardinality(instances(sel)) = Len(sel)
    /\ assignsRun(processTransitions(sel, event, st).log) - assignsRun(st.log)
            <= Cardinality(instances(sel))

(* C30: in the round selected for the event of a send and in the always    *)
(* round that follows it, no transition instance is selected twice, and    *)
(* the always round runs no more assign reducers than it has instances.    *)
InstanceAppliedOncePerRound ==
    (last.op = "send" /\ last.result \in {"ok", "throw"} /\ last.pre.started
        /\ afterEvent.err = "") =>
        /\ \A i, j \in DOMAIN last.selected :
                i < j => last.selected[i] # last.selected[j]
        /\ firstRound.err = "" => alwaysRoundOf(last.ev, afterEvent, firstRound.sel)

-----------------------------------------------------------------------------
(* The event handed to reducers inside the always loop.                    *)

(* The reducer calls the last send made after the transitions selected for *)
(* its event had been applied, that is, inside the always loop.            *)
runInAlwaysLoop ==
    {i \in DOMAIN last.log : i > Len(afterEvent.log) /\ last.log[i].k = "run"}

(* C31: every reducer applied inside the always loop of a send (assign,    *)
(* exit action or entry action) receives the synthetic always-event, never *)
(* the event that was sent.                                                *)
AlwaysLoopUsesSyntheticEvent ==
    (last.op = "send" /\ last.result \in {"ok", "throw"} /\ last.pre.started
        /\ afterEvent.err = "") =>
        \A i \in runInAlwaysLoop : last.log[i].e = AlwaysEvent.type

-----------------------------------------------------------------------------
(* Always rounds made of target-less transitions only.                     *)

(* The times the last send ran, inside its always loop, the assign reducer *)
(* of the target-less always-transition `transition` declared on `node`.   *)
firedInLoop(node, transition) ==
    Cardinality({i \in runInAlwaysLoop :
                    /\ last.log[i].role = "assign"
                    /\ last.log[i].r = transition.assign
                    /\ node \in Range(getAncestors(last.log[i].n))})

(* C32: a call whose last always round was all target-less ends without    *)
(* error, and no target-less always-transition runs its assign reducer     *)
(* more than once in the always loop of one send.                          *)
InternalRoundEndsLoopOnce ==
    /\ (last.op \in {"start", "send"} /\ last.internal) => last.error = ""
    /\ (last.op = "send" /\ last.result \in {"ok", "throw"} /\ last.pre.started
            /\ afterEvent.err = "") =>
            \A node \in NodeIds : \A t \in Range(Node(node).always) :
                (t.target = Null /\ t.assign # "") => firedInLoop(node, t) <= 1

-----------------------------------------------------------------------------
(* The order of exits, assign and entries of one external transition.      *)

(* What a log entry says apart from the event and the configuration.       *)
Did(k, n, r, role) == [k |-> k, n |-> n, r |-> r, role |-> role]

done(log) == [i \in DOMAIN log |->
                Did(log[i].k, log[i].n, log[i].r, log[i].role)]

actionsOf(reducerRefs, node, role) ==
    [i \in DOMAIN reducerRefs |-> Did("run", node, reducerRefs[i], role)]

leaving(node) == <<Did("exit", node, "", "")>> \o actionsOf(Node(node).onExit, node, "exit")

entering(node) == <<Did("enter", node, "", "")>> \o actionsOf(Node(node).onEntry, node, "entry")

RECURSIVE leavingAll(_)
leavingAll(nodes) ==
    IF nodes = <<>> THEN <<>> ELSE leaving(Head(nodes)) \o leavingAll(Tail(nodes))

RECURSIVE enteringAll(_)
enteringAll(nodes) ==
    IF nodes = <<>> THEN <<>> ELSE entering(Head(nodes)) \o enteringAll(Tail(nodes))

(* Entering a node and then its initial descendants.                       *)
RECURSIVE enteringWithInitial(_)
RECURSIVE enteringRegions(_, _)
enteringRegions(regions, k) ==
    IF k > Len(regions) THEN <<>>
    ELSE enteringWithInitial(regions[k]) \o enteringRegions(regions, k + 1)

enteringWithInitial(node) ==
    entering(node)
    \o (IF isCompound(node)
        THEN (IF Node(node).initial = Null THEN <<>>
              ELSE enteringWithInitial(Node(node).initial))
        ELSE IF isParallel(node) THEN enteringRegions(Node(node).regions, 1)
        ELSE <<>>)

(* The least common ancestor L of s and t, the nodes from s up to just     *)
(* below L, and the nodes from just below L down to t.                     *)
leastCommonAncestor(s, t) ==
    LET up == getAncestors(t)
    IN  up[CHOOSE k \in DOMAIN up :
              /\ up[k] \in Range(getAncestors(s))
              /\ \A j \in DOMAIN up : up[j] \in Range(getAncestors(s)) => k <= j]

upFrom(s, L) == SelectSeq(getAncestors(s), LAMBDA n : isDescendantOf(n, L))

downTo(t, L) == Reverse(SelectSeq(getAncestors(t), LAMBDA n : isDescendantOf(n, L)))

expectedOf(s, t, assign, L) ==
    leavingAll(upFrom(s, L))
    \o (IF assign = "" THEN <<>> ELSE <<Did("run", s, assign, "assign")>>)
    \o enteringAll(SubSeq(downTo(t, L), 1, Len(downTo(t, L)) - 1))
    \o enteringWithInitial(t)

(* The last send selected one external transition whose target is not an  *)
(* ancestor of its source, and applied it without error.                   *)
sentOneExternal ==
    /\ last.op = "send" /\ last.result = "ok"
    /\ Len(last.selected) = 1
    /\ last.selected[1].transition.target \in NodeIds
    /\ last.selected[1].transition.target
            \notin Range(getAncestors(last.selected[1].source))

appliedInOrder(s, t, expected) ==
    /\ Len(last.log) >= Len(expected)
    /\ done(SubSeq(last.log, 1, Len(expected))) = expected
    /\ last.rounds = 0 =>
            /\ Len(last.log) = Len(expected)
            /\ \A n \in Range(downTo(t, leastCommonAncestor(s, t))) :
                    stateEntryCounters[n] =
                        (IF n \in DOMAIN last.pre.stateEntryCounters
                         THEN last.pre.stateEntryCounters[n] ELSE 0) + 1

(* C33: a single external transition from s to t (t not an ancestor of s)  *)
(* applies the exit actions of s and its ancestors below the least common  *)
(* ancestor leaf-first, then assign with state id s, then enters the nodes *)
(* from just below the least common ancestor down to t root-first, each    *)
(* counted once before its entry actions, and only t is followed by its    *)
(* initial descendants.                                                    *)
ExternalTransitionOrder ==
    sentOneExternal =>
        appliedInOrder(last.selected[1].source, last.selected[1].transition.target,
            expectedOf(last.selected[1].source, last.selected[1].transition.target,
                       last.selected[1].transition.assign,
                       leastCommonAncestor(last.selected[1].source,
                                           last.selected[1].transition.target)))

(* Such a transition ran exit actions, its assign reducer and entry        *)
(* actions, and entered two nodes or more below the common ancestor.       *)
EnteredThroughAncestors ==
    /\ sentOneExternal
    /\ Len(downTo(last.selected[1].transition.target,
                  leastCommonAncestor(last.selected[1].source,
                                      last.selected[1].transition.target))) >= 2
    /\ \E i, j, k \in DOMAIN last.log :
            /\ i < j /\ j < k
            /\ last.log[i].role = "exit" /\ last.log[j].role = "assign"
            /\ last.log[k].role = "entry"

-----------------------------------------------------------------------------
(* A transition to a proper ancestor of its source.                        *)

(* The last send selected one transition whose target is a proper ancestor *)
(* of its source and not the root, and applied it without error.           *)
sentToAncestor ==
    /\ last.op = "send" /\ last.result = "ok"
    /\ Len(last.selected) = 1
    /\ last.selected[1].transition.target \in NodeIds \ {RootId}
    /\ isDescendantOf(last.selected[1].source, last.selected[1].transition.target)
    /\ afterEvent.err = ""

(* The nodes from s up to and including its ancestor T.                    *)
upThrough(s, T) ==
    SelectSeq(getAncestors(s), LAMBDA n : n = T \/ isDescendantOf(n, T))

reentered(s, T, assign, expected) ==
    /\ Len(last.log) >= Len(expected)
    /\ done(SubSeq(last.log, 1, Len(expected))) = expected
    /\ afterEvent.cnt[T] = (IF T \in DOMAIN last.pre.stateEntryCounters
                            THEN last.pre.stateEntryCounters[T] ELSE 0) + 1
    /\ {n \in Range(afterEvent.cfg) : n = T \/ (n \in NodeIds /\ isDescendantOf(n, T))}
            = initialClosure(T)

(* C34: a transition whose target T is a proper ancestor of its source and *)
(* not the root applies the exit actions of the nodes from the source up   *)
(* to and including T leaf-first, then assign, then enters T once with its *)
(* initial descendants: T gains one count and the active nodes at or below *)
(* T are exactly the initial closure of T.                                 *)
TransitionToAncestorReenters ==
    sentToAncestor =>
        reentered(last.selected[1].source, last.selected[1].transition.target,
                  last.selected[1].transition.assign,
                  leavingAll(upThrough(last.selected[1].source,
                                       last.selected[1].transition.target))
                  \o (IF last.selected[1].transition.assign = "" THEN <<>>
                      ELSE <<Did("run", last.selected[1].source,
                                 last.selected[1].transition.assign, "assign")>>)
                  \o enteringWithInitial(last.selected[1].transition.target))

(* A transition to an ancestor was applied from a node that is not in the  *)
(* initial closure of that ancestor.                                       *)
LeftForAncestor ==
    /\ sentToAncestor
    /\ last.selected[1].source \notin initialClosure(last.selected[1].transition.target)

-----------------------------------------------------------------------------
(* Self-transitions.                                                       *)

(* The last send selected one transition whose target is the node that     *)
(* declares it, and applied it without error.                              *)
sentSelf ==
    /\ last.op = "send" /\ last.result = "ok"
    /\ Len(last.selected) = 1
    /\ last.selected[1].transition.target = last.selected[1].source
    /\ last.selected[1].source \in NodeIds
    /\ afterEvent.err = ""

restarted(S, expected) ==
    /\ Len(last.log) >= Len(expected)
    /\ done(SubSeq(last.log, 1, Len(expected))) = expected
    /\ afterEvent.cnt[S] = (IF S \in DOMAIN last.pre.stateEntryCounters
                            THEN last.pre.stateEntryCounters[S] ELSE 0) + 1
    /\ {n \in Range(afterEvent.cfg) : n = S \/ (n \in NodeIds /\ isDescendantOf(n, S))}
            = initialClosure(S)

(* C35: a self-transition on S applies the exit actions of S, then assign, *)
(* then enters S with its initial descendants: S gains one count and the   *)
(* active nodes at or below S are exactly the initial closure of S,        *)
(* whichever descendants of S were active before.                          *)
SelfTransitionRestarts ==
    sentSelf =>
        restarted(last.selected[1].source,
                  leaving(last.selected[1].source)
                  \o (IF last.selected[1].transition.assign = "" THEN <<>>
                      ELSE <<Did("run", last.selected[1].source,
                                 last.selected[1].transition.assign, "assign")>>)
                  \o enteringWithInitial(last.selected[1].source))

-----------------------------------------------------------------------------
(* Transitions declared on an ancestor of their target.                    *)

(* The last send selected one transition declared on a proper ancestor of  *)
(* its target (the root for the top-level handlers) and applied it without  *)
(* error.                                                                  *)
sentDownwards ==
    /\ last.op = "send" /\ last.result = "ok"
    /\ Len(last.selected) = 1
    /\ last.selected[1].transition.target \in NodeIds
    /\ isDescendantOf(last.selected[1].transition.target, last.selected[1].source)
    /\ afterEvent.err = ""

enteredByEvent == {afterEvent.log[i].n : i \in {j \in DOMAIN afterEvent.log :
                                                  afterEvent.log[j].k = "enter"}}

(* C36: after an external transition declared on a proper ancestor of its  *)
(* target, every node that was active before, lies below the source and is *)
(* neither the target, an ancestor of the target nor entered by the        *)
(* transition is inactive.                                                 *)
SiblingsLeftBelowSource ==
    sentDownwards =>
        \A n \in Before \cap NodeIds :
            (/\ isDescendantOf(n, last.selected[1].source)
             /\ n \notin Range(getAncestors(last.selected[1].transition.target))
             /\ n \notin enteredByEvent)
                => n \notin Range(afterEvent.cfg)

-----------------------------------------------------------------------------
(* Exits and entries against the working configuration.                    *)

(* C37: while a start or a send applies transitions, exit actions are      *)
(* applied only for nodes that are in the working configuration at that    *)
(* moment, and a node is activated only when it is not in it.              *)
ExitsActiveEntersInactive ==
    last.op \in {"start", "send"} =>
        \A i \in DOMAIN last.log :
            /\ last.log[i].k = "exit" => last.log[i].was
            /\ last.log[i].k = "enter" => ~last.log[i].was

-----------------------------------------------------------------------------
(* load that fails, and load after load.                                   *)

(* C38: when load throws on a machine that is not started, the context,    *)
(* the configuration, the entry counters and the loaded flag are what they *)
(* were before the call.                                                   *)
FailedLoadChangesNothing ==
    (loadCalled /\ last.result = "throw") =>
        unchangedRuntime /\ loaded = last.pre.loaded

(* C39: after load returns, the context, the configuration and the entry   *)
(* counters are exactly those of the snapshot loaded, whatever was loaded   *)
(* before.                                                                 *)
LoadReplacesRuntime ==
    loadReturned =>
        /\ context = last.snapshot.context
        /\ Range(configuration) = Range(last.snapshot.configuration)
        /\ DOMAIN stateEntryCounters =
                {last.snapshot.stateCounters[k][1] : k \in DOMAIN last.snapshot.stateCounters}
        /\ \A k \in DOMAIN last.snapshot.stateCounters :
                stateEntryCounters[last.snapshot.stateCounters[k][1]]
                    = last.snapshot.stateCounters[k][2]

-----------------------------------------------------------------------------
(* The history cursor.                                                     *)

(* C40: on a started machine with time travel enabled, after every send,   *)
(* rewind and ff the cursor is an index of the history, and when the call  *)
(* returned normally the snapshot at the cursor is the current context,    *)
(* configuration and entry counters; with time travel disabled the history *)
(* is empty and the cursor is -1.                                          *)
CursorWithinHistory ==
    /\ (timeTravelEnabled /\ started /\ last.op \in {"send", "rewind", "ff"}) =>
            /\ historyIndex \in 0..(Len(history) - 1)
            /\ last.result \in {"ok", "ignored"} => atSnapshot(history[historyIndex + 1])
    /\ ~timeTravelEnabled => (history = <<>> /\ historyIndex = 0 - 1)

====
